---- MODULE Spec2Model ----
(***************************************************************************)
(* A model of org.vufind.index.VuFindIndexer: the change tracker plumbing  *)
(* (connectToDatabase, shutdown, updateTracker, getFirstIndexed,           *)
(* getLastIndexed) as a two-thread state machine, and the field extractors *)
(* (getLatestTransaction, getPublishers) as operators over small records.  *)
(* Strings the code inspects character by character are sequences of       *)
(* one-character strings.                                                  *)
(***************************************************************************)
EXTENDS Integers, Sequences, FiniteSets, TLC

\* ------------------------------------------------------------------ bounds

\* The clock takes the values 0..MaxTime.
MaxTime == 1
\* Tracker calls (updateTracker/getFirstIndexed/getLastIndexed) in one run.
MaxCalls == 2
\* Direct calls of the public shutdown() method in one run.
MaxShutdownCalls == 1
\* Control fields (005, 008) of a record handed to getLatestTransaction.
MaxControlFields == 2
\* Data fields (260, 264) of a record handed to getPublishers.
MaxDataFields == 3

\* The (core, id) pairs the run indexes: two ids of one core, one id in two cores.
Pairs == {<<"biblio", "u1">>, <<"biblio", "u2">>, <<"authority", "u1">>}
\* The transaction dates of the records indexed: an older and a newer one.
TxDates == {0, 1}
Ops == {"updateTracker", "getFirstIndexed", "getLastIndexed"}

VARIABLES
    \* --- fields of VuFindIndexer
    vufindDatabase,   \* "null" | "open" | "closed": the Connection field and its state
    tracker,          \* "null" | "obj": the UpdateDateTracker field
    shuttingDown,     \* the shutdown flag
    \* --- the runtime and the backing store
    hooks,            \* shutdown hooks registered with the runtime
    store,            \* the tracker table: Pairs -> TrackerRecord or Unseen
    now,              \* the clock
    \* --- the indexing thread
    utpc,             \* "idle" | "load" | "construct" | "index" | "catch" | "ret" | "dead"
    utOp,             \* the public method being executed
    utArgs,           \* its (core, id, latestTransaction)
    utErr,            \* "none" | "connect" | "closed" | "transient"
    outcome,          \* "none" | "returned" | "fatal" | "npe": how the last call ended
    logged,           \* whether the last call logged an error
    \* --- the shutdown-hook thread
    hookpc,           \* "idle" | "close" | "flag" | "done"
    flagRacy,         \* shuttingDown was written by the hook thread, unsynchronised
    \* --- history
    conns,            \* connections created
    trackers,         \* tracker objects created
    calls,            \* tracker calls started
    sdCalls,          \* direct shutdown() calls
    sdRuns,           \* shutdown() executions completed
    sdClosed,         \* a shutdown() has found a connection and closed it
    sdBegun,          \* some shutdown() has started
    sdAtErr,          \* sdBegun at the moment the last call's error was handled
    firstCall,        \* Pairs -> time of the pair's first completed tracker.index call, or -1
    everTracked,      \* pairs that have been Tracked at some moment
    \* --- the extractors' harness
    frec,             \* the record handed to an extractor
    fpc,              \* "build" | "done"
    fout              \* the extractor's result

trackerVars == <<vufindDatabase, tracker, shuttingDown, hooks, store, now, utpc, utOp,
                 utArgs, utErr, outcome, logged, hookpc, flagRacy, conns, trackers,
                 calls, sdCalls, sdRuns, sdClosed, sdBegun, sdAtErr, firstCall,
                 everTracked>>
extractorVars == <<frec, fpc, fout>>
vars == <<trackerVars, extractorVars>>

\* ------------------------------------------------------ the tracker store

Unseen == [first |-> -1, last |-> -1, tx |-> -1]
Tracked(st, p) == st[p] # Unseen
NoArgs == [core |-> "", id |-> "", T |-> -1]

\* UpdateDateTracker.index(core, id, recordChange): create the row of an Unseen
\* pair, touch the row of a Tracked pair whose transaction date differs.
index(st, core, id, T, t) ==
    LET p == <<core, id>> IN
    IF st[p] = Unseen
    THEN [st EXCEPT ![p] = [first |-> t, last |-> t, tx |-> T]]
    ELSE IF st[p].tx # T
         THEN [st EXCEPT ![p] = [first |-> st[p].first, last |-> t, tx |-> T]]
         ELSE st

\* Mutants of the call tracker.index(core, id, latestTransaction).
TrackerIndexCallEpoch(st, core, id, latestTransaction, t) == index(st, core, id, 0, t)
TrackerIndexCallBiblio(st, core, id, latestTransaction, t) ==
    index(st, "biblio", id, latestTransaction, t)
TrackerIndexCallNow(st, core, id, latestTransaction, t) == index(st, core, id, t, t)
TrackerIndexCallSkipped(st, core, id, latestTransaction, t) == st

\* updateTracker's call tracker.index(core, id, latestTransaction).
TrackerIndexCall(st, core, id, latestTransaction, t) ==
    index(st, core, id, latestTransaction, t)

\* --------------------------------------------------------- tracker: Init

TrackerInit ==
    /\ vufindDatabase = "null"
    /\ tracker = "null"
    /\ shuttingDown = FALSE
    /\ hooks = 0
    /\ store = [p \in Pairs |-> Unseen]
    /\ now = 0
    /\ utpc = "idle"
    /\ utOp = "none"
    /\ utArgs = NoArgs
    /\ utErr = "none"
    /\ outcome = "none"
    /\ logged = FALSE
    /\ hookpc = "idle"
    /\ flagRacy = FALSE
    /\ conns = 0
    /\ trackers = 0
    /\ calls = 0
    /\ sdCalls = 0
    /\ sdRuns = 0
    /\ sdClosed = FALSE
    /\ sdBegun = FALSE
    /\ sdAtErr = FALSE
    /\ firstCall = [p \in Pairs |-> -1]
    /\ everTracked = {}

\* A record: its control fields [tag, data] and its data fields
\* [tag, ind2, subfields], each subfield [code, data], in record order.
EmptyRecord == [controls |-> <<>>, fields |-> <<>>]

ExtractorIdle ==
    /\ frec = EmptyRecord
    /\ fpc = "off"
    /\ fout = <<>>

\* ------------------------------------------------ tracker: the operations

\* dieWithError: log the message and throw the fatal SolrMarcIndexerException.
dieWithErrorNoThrow ==
    /\ logged' = TRUE
    /\ outcome' = outcome
    /\ utpc' = "ret"

dieWithError ==
    /\ logged' = TRUE
    /\ outcome' = "fatal"
    /\ utpc' = "dead"

\* connectToDatabase: nothing when a connection exists; otherwise connect (or die)
\* and register the shutdown hook.
connectToDatabaseAlways ==
    \/ /\ vufindDatabase' = "open"
       /\ conns' = conns + 1
       /\ hooks' = hooks + 1
       /\ utpc' = "construct"
       /\ UNCHANGED <<utErr, outcome, logged, sdAtErr>>
    \/ /\ utErr' = "connect"
       /\ sdAtErr' = sdBegun
       /\ dieWithError
       /\ UNCHANGED <<vufindDatabase, conns, hooks>>

connectToDatabase ==
    IF vufindDatabase # "null"
    THEN /\ utpc' = "construct"
         /\ UNCHANGED <<vufindDatabase, conns, hooks, utErr, outcome, logged, sdAtErr>>
    ELSE \/ /\ vufindDatabase' = "open"
            /\ conns' = conns + 1
            /\ hooks' = hooks + 1
            /\ utpc' = "construct"
            /\ UNCHANGED <<utErr, outcome, logged, sdAtErr>>
         \/ /\ utErr' = "connect"
            /\ sdAtErr' = sdBegun
            /\ dieWithError
            /\ UNCHANGED <<vufindDatabase, conns, hooks>>

\* disconnectFromDatabase: close the connection if there is one.  A close() that
\* throws is caught and logged; the connection is not usable afterwards either way.
disconnectFromDatabase ==
    IF vufindDatabase # "null"
    THEN /\ vufindDatabase' = "closed"
         /\ sdClosed' = TRUE
    ELSE UNCHANGED <<vufindDatabase, sdClosed>>

\* A tracker call enters updateTracker (getFirstIndexed and getLastIndexed have
\* evaluated getFirstFieldVal and getLatestTransaction for their record).
UtCall(op, core, id, T) ==
    /\ utpc = "idle"
    /\ calls < MaxCalls
    /\ utpc' = "load"
    /\ utOp' = op
    /\ utArgs' = [core |-> core, id |-> id, T |-> T]
    /\ utErr' = "none"
    /\ outcome' = "none"
    /\ logged' = FALSE
    /\ sdAtErr' = FALSE
    /\ calls' = calls + 1
    /\ UNCHANGED <<vufindDatabase, tracker, shuttingDown, hooks, store, now, hookpc,
                   flagRacy, conns, trackers, sdCalls, sdRuns, sdClosed, sdBegun,
                   firstCall, everTracked>>
    /\ UNCHANGED extractorVars

\* loadUpdateDateTracker, first half: the tracker == null test and connectToDatabase.
loadUpdateDateTrackerNoGuard ==
    /\ utpc = "load"
    /\ connectToDatabase
    /\ UNCHANGED <<tracker, shuttingDown, store, now, utOp, utArgs, hookpc, flagRacy,
                   trackers, calls, sdCalls, sdRuns, sdClosed, sdBegun, firstCall,
                   everTracked>>
    /\ UNCHANGED extractorVars

loadUpdateDateTracker ==
    /\ utpc = "load"
    /\ IF tracker # "null"
       THEN /\ utpc' = "index"
            /\ UNCHANGED <<vufindDatabase, conns, hooks, utErr, outcome, logged, sdAtErr>>
       ELSE connectToDatabase
    /\ UNCHANGED <<tracker, shuttingDown, store, now, utOp, utArgs, hookpc, flagRacy,
                   trackers, calls, sdCalls, sdRuns, sdClosed, sdBegun, firstCall,
                   everTracked>>
    /\ UNCHANGED extractorVars

\* loadUpdateDateTracker, second half: tracker = new UpdateDateTracker(vufindDatabase).
\* The constructor throws SQLException on a closed connection, and may on an open one.
newUpdateDateTracker ==
    /\ utpc = "construct"
    /\ \/ /\ vufindDatabase = "open"
          /\ tracker' = "obj"
          /\ trackers' = trackers + 1
          /\ utpc' = "index"
          /\ utErr' = utErr
       \/ /\ utErr' = IF vufindDatabase = "open" THEN "transient" ELSE "closed"
          /\ utpc' = "catch"
          /\ UNCHANGED <<tracker, trackers>>
    /\ UNCHANGED <<vufindDatabase, shuttingDown, hooks, store, now, utOp, utArgs, outcome,
                   logged, hookpc, flagRacy, conns, calls, sdCalls, sdRuns, sdClosed,
                   sdBegun, sdAtErr, firstCall, everTracked>>
    /\ UNCHANGED extractorVars

\* updateTracker's try body after the load: tracker.index(core, id, latestTransaction).
\* The call throws SQLException on a closed connection, and may on an open one.
UtIndex ==
    /\ utpc = "index"
    /\ LET p == <<utArgs.core, utArgs.id>> IN
       /\ \/ /\ vufindDatabase = "open"
             /\ firstCall' = IF firstCall[p] = -1 THEN [firstCall EXCEPT ![p] = now]
                             ELSE firstCall
             /\ store' = TrackerIndexCall(store, utArgs.core, utArgs.id, utArgs.T, now)
             /\ utpc' = "ret"
             /\ utErr' = utErr
          \/ /\ utErr' = IF vufindDatabase = "open" THEN "transient" ELSE "closed"
             /\ utpc' = "catch"
             /\ UNCHANGED <<store, firstCall>>
    /\ everTracked' = everTracked \cup {q \in Pairs : Tracked(store', q)}
    /\ UNCHANGED <<vufindDatabase, tracker, shuttingDown, hooks, now, utOp, utArgs,
                   outcome, logged, hookpc, flagRacy, conns, trackers, calls, sdCalls,
                   sdRuns, sdClosed, sdBegun, sdAtErr>>
    /\ UNCHANGED extractorVars

\* What the indexing thread may read from shuttingDown: the field is neither volatile
\* nor guarded, so a value written by the hook thread may not be visible yet.
FlagReads == IF shuttingDown /\ flagRacy THEN {TRUE, FALSE} ELSE {shuttingDown}

\* updateTracker's catch (SQLException): swallow when shutting down, die otherwise.
UtCatch ==
    /\ utpc = "catch"
    /\ sdAtErr' = sdBegun
    /\ \E seen \in FlagReads :
          IF ~seen
          THEN dieWithError
          ELSE /\ utpc' = "ret"
               /\ UNCHANGED <<logged, outcome>>
    /\ UNCHANGED <<vufindDatabase, tracker, shuttingDown, hooks, store, now, utOp, utArgs,
                   utErr, hookpc, flagRacy, conns, trackers, calls, sdCalls, sdRuns,
                   sdClosed, sdBegun, firstCall, everTracked>>
    /\ UNCHANGED extractorVars

\* updateTracker returns the tracker field; getFirstIndexed and getLastIndexed then
\* dereference it (tracker.getFirstIndexed(), tracker.getLastIndexed()).
UtReturn ==
    /\ utpc = "ret"
    /\ IF utOp # "updateTracker" /\ tracker = "null"
       THEN /\ outcome' = "npe"
            /\ utpc' = "dead"
       ELSE /\ outcome' = "returned"
            /\ utpc' = "idle"
    /\ utOp' = utOp
    /\ utArgs' = IF utpc' = "idle" THEN NoArgs ELSE utArgs
    /\ UNCHANGED <<vufindDatabase, tracker, shuttingDown, hooks, store, now,
                   utErr, logged, hookpc, flagRacy, conns, trackers, calls, sdCalls,
                   sdRuns, sdClosed, sdBegun, sdAtErr, firstCall, everTracked>>
    /\ UNCHANGED extractorVars

\* shutdown() called directly, between two tracker calls of the indexing thread.
ShutdownCall ==
    /\ utpc = "idle"
    /\ hookpc \in {"idle", "done"}
    /\ sdCalls < MaxShutdownCalls
    /\ sdCalls' = sdCalls + 1
    /\ disconnectFromDatabase
    /\ shuttingDown' = TRUE
    /\ sdBegun' = TRUE
    /\ sdRuns' = sdRuns + 1
    /\ UNCHANGED <<tracker, hooks, store, now, utpc, utOp, utArgs, utErr, outcome, logged,
                   hookpc, flagRacy, conns, trackers, calls, sdAtErr, firstCall,
                   everTracked>>
    /\ UNCHANGED extractorVars

\* The runtime starts the registered VuFindShutdownThread (at most once).
HookStart ==
    /\ hooks > 0
    /\ hookpc = "idle"
    /\ hookpc' = "close"
    /\ sdBegun' = TRUE
    /\ UNCHANGED <<vufindDatabase, tracker, shuttingDown, hooks, store, now, utpc, utOp,
                   utArgs, utErr, outcome, logged, flagRacy, conns, trackers, calls,
                   sdCalls, sdRuns, sdClosed, sdAtErr, firstCall, everTracked>>
    /\ UNCHANGED extractorVars

\* shutdown() on the hook thread, first statement: disconnectFromDatabase().
HookClose ==
    /\ hookpc = "close"
    /\ disconnectFromDatabase
    /\ hookpc' = "flag"
    /\ UNCHANGED <<tracker, shuttingDown, hooks, store, now, utpc, utOp, utArgs, utErr,
                   outcome, logged, flagRacy, conns, trackers, calls, sdCalls, sdRuns,
                   sdBegun, sdAtErr, firstCall, everTracked>>
    /\ UNCHANGED extractorVars

\* shutdown() on the hook thread, second statement: shuttingDown = true.
HookFlag ==
    /\ hookpc = "flag"
    /\ shuttingDown' = TRUE
    /\ flagRacy' = TRUE
    /\ hookpc' = "done"
    /\ sdRuns' = sdRuns + 1
    /\ UNCHANGED <<vufindDatabase, tracker, hooks, store, now, utpc, utOp, utArgs, utErr,
                   outcome, logged, conns, trackers, calls, sdCalls, sdClosed, sdBegun,
                   sdAtErr, firstCall, everTracked>>
    /\ UNCHANGED extractorVars

\* Time passes.
Tick ==
    /\ now < MaxTime
    /\ now' = now + 1
    /\ UNCHANGED <<vufindDatabase, tracker, shuttingDown, hooks, store, utpc, utOp,
                   utArgs, utErr, outcome, logged, hookpc, flagRacy, conns, trackers,
                   calls, sdCalls, sdRuns, sdClosed, sdBegun, sdAtErr, firstCall,
                   everTracked>>
    /\ UNCHANGED extractorVars

Init == TrackerInit /\ ExtractorIdle

Next ==
    \/ \E op \in Ops, p \in Pairs, T \in TxDates : UtCall(op, p[1], p[2], T)
    \/ loadUpdateDateTracker
    \/ newUpdateDateTracker
    \/ UtIndex
    \/ UtCatch
    \/ UtReturn
    \/ ShutdownCall
    \/ HookStart
    \/ HookClose
    \/ HookFlag
    \/ Tick

Spec == Init /\ [][Next]_vars

\* ------------------------------------------------- change tracker: claims

\* The tracker.index call of the running updateTracker completes in this step.
IndexCompletes == utpc = "index" /\ utpc' = "ret"
CallPair == <<utArgs.core, utArgs.id>>

\* C1: a tracker.index(core, id, T) call that completes on an Unseen pair leaves the
\* pair Tracked with first-indexed = last-indexed = the time of the call and the
\* stored transaction date T.
C1_FirstIndexCreates ==
    [][(IndexCompletes /\ ~Tracked(store, CallPair))
         => /\ Tracked(store', CallPair)
            /\ store'[CallPair] = [first |-> now, last |-> now, tx |-> utArgs.T]]_vars

C1_Witness ==
    /\ utpc = "ret"
    /\ utErr = "none"
    /\ calls = 1
    /\ now = 1
    /\ utArgs.T = 1
    /\ store[CallPair] = [first |-> 1, last |-> 1, tx |-> 1]

\* C2: every pair that has ever been Tracked is still Tracked, and its first-indexed
\* time is the time of the very first tracker.index call completed for it.
C2_FirstIndexedImmutable ==
    \A p \in everTracked : Tracked(store, p) /\ store[p].first = firstCall[p]

C2_Witness ==
    \E p \in everTracked :
        /\ store[p].last > store[p].first
        /\ store[p].first = firstCall[p]
        /\ calls = 2

\* C3: a tracker.index(core, id, T) call that completes on a Tracked pair whose stored
\* transaction date is T leaves the pair's record as it was, whatever the time is.
C3_SameTransactionNoOp ==
    [][(IndexCompletes /\ Tracked(store, CallPair) /\ store[CallPair].tx = utArgs.T)
         => store'[CallPair] = store[CallPair]]_vars

C3_Witness ==
    /\ utpc = "ret"
    /\ utErr = "none"
    /\ calls = 2
    /\ Tracked(store, CallPair)
    /\ store[CallPair].tx = utArgs.T
    /\ store[CallPair].last < now

\* C4: a tracker.index(core, id, T) call that completes on a Tracked pair whose stored
\* transaction date differs from T, newer or older, sets last-indexed to the time of
\* the call and the stored transaction date to T, and changes no other pair's record.
C4_ChangedTransactionTouches ==
    [][(IndexCompletes /\ Tracked(store, CallPair) /\ store[CallPair].tx # utArgs.T)
         => /\ store'[CallPair].last = now
            /\ store'[CallPair].tx = utArgs.T
            /\ \A q \in Pairs \ {CallPair} : store'[q] = store[q]]_vars

C4_Witness ==
    /\ utpc = "ret"
    /\ utErr = "none"
    /\ Tracked(store, CallPair)
    /\ store[CallPair].first < store[CallPair].last
    /\ store[CallPair].last = now
    /\ store[CallPair].tx = 0
    /\ utArgs.T = 0

\* C5: a database error updateTracker meets because a shutdown has closed the
\* connection is never escalated to the fatal exception.
C5_ShutdownErrorSuppressed ==
    [][(utpc = "catch" /\ utErr = "closed") => utpc' # "dead"]_vars

\* C6: no connection exists before the first tracker call, and at most one
\* connection, one tracker object and one shutdown hook are ever created.
C6_LazySingleConnection ==
    /\ calls = 0 => (conns = 0 /\ vufindDatabase = "null")
    /\ conns <= 1
    /\ trackers <= 1
    /\ hooks <= 1

C6_Witness ==
    /\ calls = 2
    /\ utpc = "idle"
    /\ outcome = "returned"
    /\ conns = 1
    /\ trackers = 1
    /\ hooks = 1

C8_ErrorsEscalate ==
    (utErr # "none" /\ utpc # "catch" /\ ~sdAtErr)
        => (logged /\ outcome = "fatal" /\ utpc = "dead")

C8_Witness ==
    /\ utErr = "transient"
    /\ ~sdBegun
    /\ logged
    /\ outcome = "fatal"
    /\ utpc = "dead"

\* ------------------------------------------------------------ strings

Digits == <<"0", "1", "2", "3", "4", "5", "6", "7", "8", "9">>
IsDigit(c) == \E i \in 1..Len(Digits) : Digits[i] = c
DigitVal(c) == (CHOOSE i \in 1..Len(Digits) : Digits[i] = c) - 1

\* The decimal number written in s[from..to] (all digits).
RECURSIVE NumAt(_, _, _)
NumAt(s, from, to) ==
    IF from > to THEN 0 ELSE NumAt(s, from, to - 1) * 10 + DigitVal(s[to])

AllDigits(s, from, to) == \A i \in from..to : IsDigit(s[i])

\* The end of the run of digits of s that starts at position from.
RECURSIVE DigitRunEnd(_, _)
DigitRunEnd(s, from) ==
    IF from + 1 <= Len(s) /\ IsDigit(s[from + 1]) THEN DigitRunEnd(s, from + 1) ELSE from

\* --------------------------------------------------- getLatestTransaction

\* A java.util.Date as <<year, month, day, hour, minute, second, millisecond>>;
\* new Date(0) is the epoch.  (The century of a two-digit year is left as parsed.)
Epoch == <<1970, 1, 1, 0, 0, 0, 0>>
Parsed(d) == [exc |-> "none", date |-> d]
Thrown(e) == [exc |-> e, date |-> Epoch]

NullString == <<"n", "u", "l", "l">>

\* marc005date.parse(input): SimpleDateFormat("yyyyMMddHHmmss.S"), which reads
\* fixed-width digit fields, the literal '.', and a run of digits, from the start of
\* the input, and ignores what follows.
marc005dateParse(input) ==
    IF /\ Len(input) >= 16
       /\ AllDigits(input, 1, 14)
       /\ input[15] = "."
       /\ IsDigit(input[16])
    THEN Parsed(<<NumAt(input, 1, 4), NumAt(input, 5, 6), NumAt(input, 7, 8),
                  NumAt(input, 9, 10), NumAt(input, 11, 12), NumAt(input, 13, 14),
                  NumAt(input, 16, DigitRunEnd(input, 16))>>)
    ELSE Thrown("ParseException")

\* marc008date.parse(input): SimpleDateFormat("yyMMdd").
marc008dateParse(input) ==
    IF Len(input) >= 6 /\ AllDigits(input, 1, 6)
    THEN Parsed(<<NumAt(input, 1, 2), NumAt(input, 3, 4), NumAt(input, 5, 6), 0, 0, 0, 0>>)
    ELSE Thrown("ParseException")

\* input.substring(0, 6)
Substring06(input) ==
    IF Len(input) < 6 THEN [exc |-> "StringIndexOutOfBoundsException", str |-> <<>>]
    ELSE [exc |-> "none", str |-> SubSeq(input, 1, 6)]

\* normalize005Date: the parsed date, or new Date(0) when parsing throws.
normalize005Date(input) ==
    LET r == marc005dateParse(input) IN
    IF r.exc = "ParseException" THEN Epoch ELSE r.date

\* normalize008Date: an input shorter than 6 becomes "null", whose substring(0, 6)
\* throws; either exception gives new Date(0).
normalize008Date(input) ==
    LET in == IF Len(input) < 6 THEN NullString ELSE input
        sub == Substring06(in)
    IN  IF sub.exc = "StringIndexOutOfBoundsException" THEN Epoch
        ELSE LET r == marc008dateParse(sub.str) IN
             IF r.exc = "ParseException" THEN Epoch ELSE r.date

\* LinkedHashSet.add: append unless present.
SetAdd(set, x) == IF \E i \in 1..Len(set) : set[i] = x THEN set ELSE Append(set, x)

\* getFieldList(record, tag) for a control field tag: the data of the record's
\* fields with that tag, as a set in record order.
RECURSIVE getFieldListFrom(_, _, _)
getFieldListFrom(controls, tag, acc) ==
    IF controls = <<>> THEN acc
    ELSE getFieldListFrom(Tail(controls), tag,
                          IF Head(controls).tag = tag
                          THEN SetAdd(acc, Head(controls).data) ELSE acc)

getFieldList(record, tag) == getFieldListFrom(record.controls, tag, <<>>)

\* getLatestTransaction: the first 005 if there is one, else the first 008 if there
\* is one, else new Date(0).
getLatestTransaction(record) ==
    LET d5 == getFieldList(record, "005")
        d8 == getFieldList(record, "008")
    IN  IF d5 # <<>> THEN normalize005Date(d5[1])
        ELSE IF d8 # <<>> THEN normalize008Date(d8[1])
        ELSE Epoch

\* The control field values the records are built from.
Str005Full == <<"2", "0", "2", "4", "0", "1", "0", "2", "0", "3", "0", "4", "0", "5", ".", "0">>
Str005Other == <<"1", "9", "9", "9", "1", "2", "3", "1", "2", "3", "5", "9", "5", "9", ".", "1", "2">>
Str005NoFraction == <<"2", "0", "2", "4", "0", "1", "0", "2", "0", "3", "0", "4", "0", "5">>
Str005Letter == <<"2", "0", "2", "4", "x", "1", "0", "2", "0", "3", "0", "4", "0", "5", ".", "0">>
Str008Full == <<"8", "5", "0", "1", "0", "1", "s", "1", "9", "8", "5">>
Str008Six == <<"2", "4", "0", "1", "0", "2">>
Str008Short == <<"8", "5", "0", "1", "0">>
Str008Blank == <<"8", "5", " ", " ", " ", " ", "s">>
ControlSamples ==
    {[tag |-> "005", data |-> d] :
        d \in {Str005Full, Str005Other, Str005NoFraction, Str005Letter, <<>>}}
    \cup {[tag |-> "008", data |-> d] :
        d \in {Str008Full, Str008Six, Str008Short, Str008Blank, <<>>}}

\* The driver adds a control field to the record being read.
AddControlField(f) ==
    /\ fpc = "build"
    /\ Len(frec.controls) < MaxControlFields
    /\ frec' = [frec EXCEPT !.controls = Append(@, f)]
    /\ UNCHANGED <<fpc, fout>>
    /\ UNCHANGED trackerVars

\* The driver calls getLatestTransaction(record).
CallGetLatestTransaction ==
    /\ fpc = "build"
    /\ fout' = getLatestTransaction(frec)
    /\ fpc' = "done"
    /\ UNCHANGED frec
    /\ UNCHANGED trackerVars

ExtractorInit ==
    /\ frec = EmptyRecord
    /\ fpc = "build"
    /\ fout = <<>>

InitLatestTransaction == TrackerInit /\ ExtractorInit

NextLatestTransaction ==
    \/ \E f \in ControlSamples : AddControlField(f)
    \/ CallGetLatestTransaction

SpecLatestTransaction == InitLatestTransaction /\ [][NextLatestTransaction]_vars

\* C9: getLatestTransaction returns the date of the 005 when that parses, otherwise
\* the date of the first six characters of the 008 when that parses, and the epoch
\* only when neither parses.
C9_PrefersParseableField ==
    fpc = "done" =>
        LET d5 == getFieldList(frec, "005")
            d8 == getFieldList(frec, "008")
            ok5 == d5 # <<>> /\ marc005dateParse(d5[1]).exc = "none"
            ok8 == /\ d8 # <<>>
                   /\ Len(d8[1]) >= 6
                   /\ marc008dateParse(SubSeq(d8[1], 1, 6)).exc = "none"
        IN  fout = IF ok5 THEN marc005dateParse(d5[1]).date
                   ELSE IF ok8 THEN marc008dateParse(SubSeq(d8[1], 1, 6)).date
                   ELSE Epoch

\* ------------------------------------------------------------ getPublishers

IsSpace(c) == c = " "

\* String.trim()
RECURSIVE TrimLeft(_)
TrimLeft(str) == IF str # <<>> /\ IsSpace(Head(str)) THEN TrimLeft(Tail(str)) ELSE str

RECURSIVE TrimRight(_)
TrimRight(str) ==
    IF str # <<>> /\ IsSpace(str[Len(str)]) THEN TrimRight(SubSeq(str, 1, Len(str) - 1))
    ELSE str

Trim(str) == TrimRight(TrimLeft(str))

\* record.getVariableFields(tag): the data fields with that tag, in record order.
getVariableFields(record, tag) == SelectSeq(record.fields, LAMBDA f : f.tag = tag)

\* df.getSubfields(code): the subfields with that code, in field order.
getSubfields(df, code) == SelectSeq(df.subfields, LAMBDA sf : sf.code = code)

\* for (Subfield current : df.getSubfields('b'))
\*     currentString = currentString.trim().concat(" " + current.getData()).trim();
RECURSIVE concatSubfields(_, _)
concatSubfields(subfields, currentString) ==
    IF subfields = <<>> THEN currentString
    ELSE concatSubfields(Tail(subfields),
                         Trim(Trim(currentString) \o (<<" ">> \o Head(subfields).data)))

\* The loop over list260: add each field's non-empty name to publishers.
RECURSIVE collect260(_, _)
collect260(list260, publishers) ==
    IF list260 = <<>> THEN publishers
    ELSE LET currentString == concatSubfields(getSubfields(Head(list260), "b"), <<>>) IN
         collect260(Tail(list260),
                    IF Len(currentString) > 0 THEN SetAdd(publishers, currentString)
                    ELSE publishers)

\* The loop over list264, for one case of the switch on the second indicator.
RECURSIVE collect264(_, _, _)
collect264(list264, ind2, names) ==
    IF list264 = <<>> THEN names
    ELSE LET currentString == concatSubfields(getSubfields(Head(list264), "b"), <<>>) IN
         collect264(Tail(list264), ind2,
                    IF Len(currentString) > 0 /\ Head(list264).ind2 = ind2
                    THEN SetAdd(names, currentString) ELSE names)

\* LinkedHashSet.addAll
RECURSIVE addAll(_, _)
addAll(set, more) == IF more = <<>> THEN set ELSE addAll(SetAdd(set, Head(more)), Tail(more))

\* getPublishers with the copyright names added whether or not there are
\* publication names.
getPublishersNoElse(record) ==
    LET publishers == collect260(getVariableFields(record, "260"), <<>>)
        pubNames == collect264(getVariableFields(record, "264"), "1", <<>>)
        copyNames == collect264(getVariableFields(record, "264"), "4", <<>>)
    IN  addAll(addAll(publishers, pubNames), copyNames)

getPublishers(record) ==
    LET publishers == collect260(getVariableFields(record, "260"), <<>>)
        pubNames == collect264(getVariableFields(record, "264"), "1", <<>>)
        copyNames == collect264(getVariableFields(record, "264"), "4", <<>>)
    IN  IF Len(pubNames) > 0 THEN addAll(publishers, pubNames)
        ELSE IF Len(copyNames) > 0 THEN addAll(publishers, copyNames)
        ELSE publishers

\* The subfield values and data fields the records are built from.
StrAcmePress == <<"A", "c", "m", "e", " ", "P", "r", "e", "s", "s">>
StrBlank == <<" ">>
StrTrailing == <<"O", "U", "P", " ">>
StrLeading == <<" ", "L", "t", "d">>
StrOup == <<"O", "U", "P">>
StrCity == <<"N", "Y">>
Sub(code, data) == [code |-> code, data |-> data]
SubfieldLists ==
    { <<Sub("a", StrCity)>>,
      <<Sub("b", StrAcmePress)>>,
      <<Sub("a", StrCity), Sub("b", StrOup)>>,
      <<Sub("b", StrTrailing), Sub("b", StrLeading)>>,
      <<Sub("b", StrBlank), Sub("b", StrOup), Sub("b", <<>>)>>,
      <<Sub("b", StrBlank)>> }
TagInds == {<<"260", " ">>, <<"264", "1">>, <<"264", "4">>, <<"264", "0">>}
DataFieldSamples ==
    {[tag |-> ti[1], ind2 |-> ti[2], subfields |-> sl] : ti \in TagInds, sl \in SubfieldLists}

\* The driver adds a data field to the record being read.
AddDataField(f) ==
    /\ fpc = "build"
    /\ Len(frec.fields) < MaxDataFields
    /\ frec' = [frec EXCEPT !.fields = Append(@, f)]
    /\ UNCHANGED <<fpc, fout>>
    /\ UNCHANGED trackerVars

\* The driver calls getPublishers(record).
CallGetPublishers ==
    /\ fpc = "build"
    /\ fout' = getPublishers(frec)
    /\ fpc' = "done"
    /\ UNCHANGED frec
    /\ UNCHANGED trackerVars

InitPublishers == TrackerInit /\ ExtractorInit

NextPublishers ==
    \/ \E f \in DataFieldSamples : AddDataField(f)
    \/ CallGetPublishers

SpecPublishers == InitPublishers /\ [][NextPublishers]_vars

\* --- C10, stated without the code's loops

\* The name of a field: its non-blank b values, the first trimmed and the others
\* right-trimmed, joined by single spaces.
NonBlank(values) == SelectSeq(values, LAMBDA v : Trim(v) # <<>>)
RECURSIVE JoinRest(_)
JoinRest(values) ==
    IF values = <<>> THEN <<>>
    ELSE (<<" ">> \o TrimRight(Head(values))) \o JoinRest(Tail(values))
SpaceJoined(values) ==
    LET nb == NonBlank(values) IN
    IF nb = <<>> THEN <<>> ELSE Trim(Head(nb)) \o JoinRest(Tail(nb))
BValues(f) == [i \in 1..Len(getSubfields(f, "b")) |-> getSubfields(f, "b")[i].data]
FieldName(f) == SpaceJoined(BValues(f))

\* The non-empty names of the fields with the tag and (if given) second indicator.
NamesOf(record, tag, inds) ==
    LET sel == SelectSeq(record.fields,
                         LAMBDA f : f.tag = tag /\ f.ind2 \in inds /\ FieldName(f) # <<>>)
    IN  [i \in 1..Len(sel) |-> FieldName(sel[i])]

\* seq without the repetitions of earlier elements.
FirstOccurrences(seq) ==
    LET keep == {i \in 1..Len(seq) : \A j \in 1..(i - 1) : seq[j] # seq[i]}
        pos(k) == CHOOSE i \in keep : Cardinality({j \in keep : j < i}) = k - 1
    IN  [k \in 1..Cardinality(keep) |-> seq[pos(k)]]

AnyInd == {" ", "0", "1", "4"}
Range(seq) == {seq[i] : i \in 1..Len(seq)}

\* C10: getPublishers returns, without duplicates and in this order, the names of the
\* 260 fields, then the names of the 264 fields with second indicator 1 if there is
\* one, otherwise those with second indicator 4; a lone 264 _4 $b "Acme Press" gives
\* {"Acme Press"}; and with a publication name present every result is a 260 name or
\* a publication name.
C10_PublishersGrouping ==
    fpc = "done" =>
        LET n260 == NamesOf(frec, "260", AnyInd)
            pub == NamesOf(frec, "264", {"1"})
            copy == NamesOf(frec, "264", {"4"})
        IN  /\ fout = FirstOccurrences(n260 \o (IF pub # <<>> THEN pub ELSE copy))
            /\ pub # <<>> => Range(fout) \subseteq Range(n260) \cup Range(pub)
            /\ frec.fields = <<[tag |-> "264", ind2 |-> "4",
                                subfields |-> <<Sub("b", StrAcmePress)>>]>>
                   => fout = <<StrAcmePress>>

\* A publication name and a copyright name are both present, and the copyright name
\* is in the result only because a 260 field carries it too.
C10_Witness ==
    /\ fpc = "done"
    /\ NamesOf(frec, "264", {"1"}) = <<StrOup>>
    /\ NamesOf(frec, "264", {"4"}) = <<StrAcmePress>>
    /\ fout = <<StrAcmePress, StrOup>>

\* ---------------------------------------------------------------------------
\* getDates: the publication dates of 260 $c and 264 $c, each cleaned.
\* ---------------------------------------------------------------------------

\* Records built for getDates hold at most this many data fields.
MaxDateFields == 3

\* The null reference, told apart from every string.
Null == <<"null">>

\* Utils.cleanDate(String): the first run of four digits in the text, with the
\* brackets, letters and punctuation around it dropped; null when the text holds
\* no year.
RECURSIVE cleanDateFrom(_, _)
cleanDateFrom(str, i) ==
    IF i + 3 > Len(str) THEN Null
    ELSE IF AllDigits(str, i, i + 3) THEN SubSeq(str, i, i + 3)
    ELSE cleanDateFrom(str, i + 1)

cleanDate(str) == cleanDateFrom(str, 1)

\* for (Subfield sf : currentDates) of a 260 field: add the cleaned date if not null.
RECURSIVE cleanInto(_, _)
cleanInto(subfields, dates) ==
    IF subfields = <<>> THEN dates
    ELSE LET date == cleanDate(Head(subfields).data)
         IN  cleanInto(Tail(subfields), IF date # Null THEN SetAdd(dates, date) ELSE dates)

\* The loop over the 260 fields.
RECURSIVE dates260(_, _)
dates260(list260, dates) ==
    IF list260 = <<>> THEN dates
    ELSE dates260(Tail(list260), cleanInto(getSubfields(Head(list260), "c"), dates))

\* The loop over the 264 fields: the case of the switch on the second indicator.
RECURSIVE dates264(_, _, _)
dates264(list264, ind2, dates) ==
    IF list264 = <<>> THEN dates
    ELSE dates264(Tail(list264), ind2,
                  IF Head(list264).ind2 = ind2
                  THEN cleanInto(getSubfields(Head(list264), "c"), dates)
                  ELSE dates)

\* The 264 loop with the null test of the cleaned date left out.
RECURSIVE rawInto(_, _)
rawInto(subfields, dates) ==
    IF subfields = <<>> THEN dates
    ELSE rawInto(Tail(subfields), SetAdd(dates, cleanDate(Head(subfields).data)))

RECURSIVE dates264NoNullTest(_, _, _)
dates264NoNullTest(list264, ind2, dates) ==
    IF list264 = <<>> THEN dates
    ELSE dates264NoNullTest(Tail(list264), ind2,
                  IF Head(list264).ind2 = ind2
                  THEN rawInto(getSubfields(Head(list264), "c"), dates)
                  ELSE dates)

getDatesNoNullTest(record) ==
    LET dates == dates260(getVariableFields(record, "260"), <<>>)
        pubDates == dates264NoNullTest(getVariableFields(record, "264"), "1", <<>>)
        copyDates == dates264NoNullTest(getVariableFields(record, "264"), "4", <<>>)
    IN  IF Len(pubDates) > 0 THEN addAll(dates, pubDates)
        ELSE IF Len(copyDates) > 0 THEN addAll(dates, copyDates)
        ELSE dates

getDates(record) ==
    LET dates == dates260(getVariableFields(record, "260"), <<>>)
        pubDates == dates264(getVariableFields(record, "264"), "1", <<>>)
        copyDates == dates264(getVariableFields(record, "264"), "4", <<>>)
    IN  IF Len(pubDates) > 0 THEN addAll(dates, pubDates)
        ELSE IF Len(copyDates) > 0 THEN addAll(dates, copyDates)
        ELSE dates

\* $c values as they stand in records.
StrBracketed1999 == <<"[", "1", "9", "9", "9", "]">>
StrC2005 == <<"c", "2", "0", "0", "5", ".">>
StrNoDate == <<"n", ".", "d", ".">>
Str1999 == <<"1", "9", "9", "9">>
Str2010 == <<"2", "0", "1", "0">>
Str2005 == <<"2", "0", "0", "5">>

DateSubfieldLists ==
    { <<Sub("c", StrBracketed1999)>>,
      <<Sub("c", StrC2005)>>,
      <<Sub("c", StrNoDate)>>,
      <<Sub("c", Str1999), Sub("c", Str2010)>>,
      <<Sub("b", StrAcmePress)>> }

DateFieldSamples ==
    { [tag |-> ti[1], ind2 |-> ti[2], subfields |-> sl] :
        ti \in TagInds, sl \in DateSubfieldLists }

AddDateField(f) ==
    /\ fpc = "build"
    /\ Len(frec.fields) < MaxDateFields
    /\ frec' = [frec EXCEPT !.fields = Append(@, f)]
    /\ UNCHANGED <<fpc, fout>>
    /\ UNCHANGED trackerVars

CallGetDates ==
    /\ fpc = "build"
    /\ fout' = getDates(frec)
    /\ fpc' = "done"
    /\ UNCHANGED frec
    /\ UNCHANGED trackerVars

InitDates == TrackerInit /\ ExtractorInit

NextDates ==
    \/ \E f \in DateFieldSamples : AddDateField(f)
    \/ CallGetDates

SpecDates == InitDates /\ [][NextDates]_vars

\* The dates the cleaner accepts among the $c subfields of one field, in order.
CleanedOf(f) ==
    LET cs == SelectSeq(f.subfields, LAMBDA sf : sf.code = "c")
        cleaned == [i \in 1..Len(cs) |-> cleanDate(cs[i].data)]
    IN  SelectSeq(cleaned, LAMBDA d : d # Null)

RECURSIVE Flatten(_)
Flatten(seqs) == IF seqs = <<>> THEN <<>> ELSE Head(seqs) \o Flatten(Tail(seqs))

\* The accepted dates of the fields with the given tag and second indicator.
DatesOf(record, tag, inds) ==
    LET fs == SelectSeq(record.fields, LAMBDA f : f.tag = tag /\ f.ind2 \in inds)
    IN  Flatten([i \in 1..Len(fs) |-> CleanedOf(fs[i])])

\* C11: getDates returns, without duplicates and in this order, the cleaned 260 $c
\* dates, then the cleaned 264 $c dates with second indicator 1 if there is one,
\* otherwise those with second indicator 4; every value is an output of the date
\* cleaner, and a $c the cleaner rejects is never in the result and does not make
\* the publication-date group count as non-empty.
C11_DatesGrouping ==
    fpc = "done" =>
        LET d260 == DatesOf(frec, "260", AnyInd)
            pub == DatesOf(frec, "264", {"1"})
            copy == DatesOf(frec, "264", {"4"})
        IN  /\ fout = FirstOccurrences(d260 \o (IF pub # <<>> THEN pub ELSE copy))
            /\ Null \notin Range(fout)
            /\ \A v \in Range(fout) :
                   \E i \in 1..Len(frec.fields) :
                       \E j \in 1..Len(frec.fields[i].subfields) :
                           /\ frec.fields[i].subfields[j].code = "c"
                           /\ cleanDate(frec.fields[i].subfields[j].data) = v

\* A 264 field with second indicator 1 whose only $c the cleaner rejects stands
\* before a 264 field with second indicator 4, and the copyright date is returned.
C11_Witness ==
    /\ fpc = "done"
    /\ \E i \in 1..Len(frec.fields) :
           /\ frec.fields[i].tag = "264"
           /\ frec.fields[i].ind2 = "1"
           /\ frec.fields[i].subfields = <<Sub("c", StrNoDate)>>
    /\ DatesOf(frec, "264", {"1"}) = <<>>
    /\ DatesOf(frec, "264", {"4"}) = <<Str2005>>
    /\ fout = <<Str2005>>

\* ---------------------------------------------------------------------------
\* getFirstDate: the earliest of the dates getDates returns.
\* ---------------------------------------------------------------------------

\* The set getDates returns holds at most this many dates.
MaxDates == 3

\* Integer.parseInt(String): an optional sign and a non-empty run of digits;
\* anything else is a NumberFormatException.
IsSign(ch) == ch = "+" \/ ch = "-"

IsInt(str) ==
    /\ Len(str) >= 1
    /\ IF IsSign(str[1]) THEN Len(str) >= 2 /\ AllDigits(str, 2, Len(str))
       ELSE AllDigits(str, 1, Len(str))

parseInt(str) ==
    IF str[1] = "-" THEN 0 - NumAt(str, 2, Len(str))
    ELSE IF str[1] = "+" THEN NumAt(str, 2, Len(str))
    ELSE NumAt(str, 1, Len(str))

\* How a call ends: with a value, or with an exception that leaves the method.
Returns(v) == [exc |-> "none", value |-> v]
Throws(e) == [exc |-> e, value |-> Null]

\* for (String current : dates): result == null is tested first, then current is
\* parsed, then result.
RECURSIVE firstDateLoop(_, _)
firstDateLoop(dates, result) ==
    IF dates = <<>> THEN Returns(result)
    ELSE LET current == Head(dates)
         IN  IF result = Null THEN firstDateLoop(Tail(dates), current)
             ELSE IF ~IsInt(current) \/ ~IsInt(result)
                  THEN Throws("NumberFormatException")
             ELSE IF parseInt(current) < parseInt(result)
                  THEN firstDateLoop(Tail(dates), current)
             ELSE firstDateLoop(Tail(dates), result)

\* The loop with <= for <.
RECURSIVE firstDateLoopLast(_, _)
firstDateLoopLast(dates, result) ==
    IF dates = <<>> THEN Returns(result)
    ELSE LET current == Head(dates)
         IN  IF result = Null THEN firstDateLoopLast(Tail(dates), current)
             ELSE IF ~IsInt(current) \/ ~IsInt(result)
                  THEN Throws("NumberFormatException")
             ELSE IF parseInt(current) <= parseInt(result)
                  THEN firstDateLoopLast(Tail(dates), current)
             ELSE firstDateLoopLast(Tail(dates), result)

\* The loop inside a try block whose catch returns null.
RECURSIVE firstDateLoopGuarded(_, _)
firstDateLoopGuarded(dates, result) ==
    IF dates = <<>> THEN Returns(result)
    ELSE LET current == Head(dates)
         IN  IF result = Null THEN firstDateLoopGuarded(Tail(dates), current)
             ELSE IF ~IsInt(current) \/ ~IsInt(result) THEN Returns(Null)
             ELSE IF parseInt(current) < parseInt(result)
                  THEN firstDateLoopGuarded(Tail(dates), current)
             ELSE firstDateLoopGuarded(Tail(dates), result)

getFirstDateLast(dates) == firstDateLoopLast(dates, Null)
getFirstDateGuarded(dates) == firstDateLoopGuarded(dates, Null)

\* getFirstDate, as a function of the set that its call of getDates returns.
getFirstDate(dates) == firstDateLoop(dates, Null)

\* Strings in the set: getDates is public and open to overriding, and the cleaner
\* that fills it lies outside this class, so the set is any ordered set of strings.
Str01999 == <<"0", "1", "9", "9", "9">>
Str0500 == <<"0", "5", "0", "0">>
Str19uu == <<"1", "9", "u", "u">>
DateSamples == {Str1999, Str01999, Str2005, Str0500, Str19uu}

AddDate(d) ==
    /\ fpc = "build"
    /\ Len(frec.dates) < MaxDates
    /\ d \notin Range(frec.dates)
    /\ frec' = [frec EXCEPT !.dates = Append(@, d)]
    /\ UNCHANGED <<fpc, fout>>
    /\ UNCHANGED trackerVars

CallGetFirstDate ==
    /\ fpc = "build"
    /\ fout' = getFirstDate(frec.dates)
    /\ fpc' = "done"
    /\ UNCHANGED frec
    /\ UNCHANGED trackerVars

InitFirstDate ==
    /\ TrackerInit
    /\ frec = [dates |-> <<>>]
    /\ fpc = "build"
    /\ fout = <<>>

NextFirstDate ==
    \/ \E d \in DateSamples : AddDate(d)
    \/ CallGetFirstDate

SpecFirstDate == InitFirstDate /\ [][NextFirstDate]_vars

AllInts(dates) == \A i \in 1..Len(dates) : IsInt(dates[i])

\* C12: getFirstDate returns null when getDates is empty; when every date is an
\* integer it returns a date of the set whose value is at most the value of every
\* other date, and among dates of that value the one that stands first in the set.
C12_FirstDateIsEarliest ==
    (fpc = "done" /\ AllInts(frec.dates)) =>
        /\ fout.exc = "none"
        /\ frec.dates = <<>> => fout.value = Null
        /\ frec.dates # <<>> =>
               \E i \in 1..Len(frec.dates) :
                   /\ fout.value = frec.dates[i]
                   /\ \A j \in 1..Len(frec.dates) :
                          parseInt(frec.dates[i]) <= parseInt(frec.dates[j])
                   /\ \A j \in 1..(i - 1) :
                          parseInt(frec.dates[i]) < parseInt(frec.dates[j])

\* Two dates of the same, smallest, value are in the set, and the earlier one of
\* the two, which is not the first date of the set, is returned.
C12_Witness ==
    /\ fpc = "done"
    /\ frec.dates = <<Str2005, Str01999, Str1999>>
    /\ fout = Returns(Str01999)

MaxFixedFields == 2
MaxPhysicalFields == 1

UpperCase == <<"A", "B", "C", "D", "E", "F", "G", "H", "I", "J", "K", "L", "M",
               "N", "O", "P", "Q", "R", "S", "T", "U", "V", "W", "X", "Y", "Z">>
LowerCase == <<"a", "b", "c", "d", "e", "f", "g", "h", "i", "j", "k", "l", "m",
               "n", "o", "p", "q", "r", "s", "t", "u", "v", "w", "x", "y", "z">>

\* String.toLowerCase()
toLowerCase(str) ==
    [i \in 1..Len(str) |->
        IF \E k \in 1..Len(UpperCase) : UpperCase[k] = str[i]
        THEN LowerCase[CHOOSE k \in 1..Len(UpperCase) : UpperCase[k] = str[i]]
        ELSE str[i]]

\* String.contains(sub)
contains(str, sub) ==
    \E i \in 1..(Len(str) - Len(sub) + 1) : SubSeq(str, i, i + Len(sub) - 1) = sub

\* String.charAt(i) and String.substring(i, i + 1): offsets count from 0.
charAt(str, i) == str[i + 1]

\* List of 008/18-21 codes that indicate illustrations, and the list with n added.
illusCodesWithN == <<"a", "b", "c", "d", "e", "f", "g", "h", "i", "j", "k", "l", "m",
                     "n", "o", "p">>
illusCodes == <<"a", "b", "c", "d", "e", "f", "g", "h", "i", "j", "k", "l", "m",
                "o", "p">>

\* for (int i = from; i <= to; i++) if (i < length) ... return "Illustrated"
RECURSIVE codeLoop(_, _, _)
codeLoop(fixedFieldText, i, to) ==
    IF i > to THEN FALSE
    ELSE IF i < Len(fixedFieldText) /\ contains(illusCodes, <<charAt(fixedFieldText, i)>>)
         THEN TRUE
    ELSE codeLoop(fixedFieldText, i + 1, to)

\* record.getVariableFields(tag) for a control field tag, and
\* record.getVariableField(tag): the first such field, here as a list of at most one.
getControlFields(record, tag) == SelectSeq(record.controls, LAMBDA cf : cf.tag = tag)
getVariableField(record, tag) ==
    IF getControlFields(record, tag) = <<>> THEN <<>>
    ELSE <<Head(getControlFields(record, tag))>>

\* while (fieldsIter.hasNext()) over the 006 fields.
RECURSIVE loop006(_)
loop006(fields) ==
    IF fields = <<>> THEN FALSE
    ELSE IF codeLoop(toLowerCase(Head(fields).data), 1, 4) THEN TRUE
    ELSE loop006(Tail(fields))

\* for (Subfield sf : subfields) of one 300 field.
RECURSIVE descLoop(_)
descLoop(subfields) ==
    IF subfields = <<>> THEN FALSE
    ELSE LET desc == toLowerCase(Head(subfields).data)
         IN  IF contains(desc, <<"i", "l", "l", ".">>)
                  \/ contains(desc, <<"i", "l", "l", "u", "s", ".">>)
             THEN TRUE
             ELSE descLoop(Tail(subfields))

\* while (fieldsIter.hasNext()) over the 300 fields.
RECURSIVE loop300(_)
loop300(fields) ==
    IF fields = <<>> THEN FALSE
    ELSE IF descLoop(getSubfields(Head(fields), "b")) THEN TRUE
    ELSE loop300(Tail(fields))

isIllustrated(record) ==
    LET leader == record.leader
        fixedField == getVariableField(record, "008")
    IN  IF /\ charAt(leader, 6) = "a"
           /\ \/ /\ fixedField # <<>>
                 /\ codeLoop(toLowerCase(fixedField[1].data), 18, 21)
              \/ loop006(getControlFields(record, "006"))
        THEN "Illustrated"
        ELSE IF loop300(getVariableFields(record, "300")) THEN "Illustrated"
        ELSE "Not Illustrated"

\* A text of length len that is blank but for ch at offset pos.
OneCode(len, pos, ch) == [i \in 1..len |-> IF i = pos + 1 THEN ch ELSE " "]

\* Leaders of a book (type a) and of a score (type c).
LeaderSamples == {OneCode(24, 6, "a"), OneCode(24, 6, "c")}

FixedFieldSamples ==
    { [tag |-> "008", data |-> OneCode(40, 20, "a")],
      [tag |-> "008", data |-> OneCode(40, 0, " ")],
      [tag |-> "008", data |-> OneCode(40, 18, "n")],
      [tag |-> "008", data |-> OneCode(40, 19, "A")],
      [tag |-> "008", data |-> OneCode(40, 22, "a")],
      [tag |-> "008", data |-> OneCode(19, 18, "b")],
      [tag |-> "008", data |-> OneCode(18, 17, "b")],
      [tag |-> "006", data |-> OneCode(18, 4, "p")],
      [tag |-> "006", data |-> OneCode(1, 0, "a")],
      [tag |-> "006", data |-> OneCode(18, 5, "o")] }

StrIll == <<"i", "l", "l", ".">>
StrIllusCap == <<"I", "l", "l", "u", "s", ".">>
Str25cm == <<"2", "5", " ", "c", "m", ".">>
StrIllNoDot == <<"c", "o", "l", ".", " ", "i", "l", "l">>

PhysicalFieldSamples ==
    { [tag |-> "300", ind2 |-> " ", subfields |-> sl] :
        sl \in { <<Sub("b", StrIll)>>,
                 <<Sub("b", Str25cm)>>,
                 <<Sub("b", Str25cm), Sub("b", StrIllusCap)>>,
                 <<Sub("a", StrIll)>>,
                 <<Sub("b", StrIllNoDot)>> } }

AddFixedField(f) ==
    /\ fpc = "build"
    /\ Len(frec.controls) < MaxFixedFields
    /\ frec' = [frec EXCEPT !.controls = Append(@, f)]
    /\ UNCHANGED <<fpc, fout>>
    /\ UNCHANGED trackerVars

AddPhysicalField(f) ==
    /\ fpc = "build"
    /\ Len(frec.fields) < MaxPhysicalFields
    /\ frec' = [frec EXCEPT !.fields = Append(@, f)]
    /\ UNCHANGED <<fpc, fout>>
    /\ UNCHANGED trackerVars

CallIsIllustrated ==
    /\ fpc = "build"
    /\ fout' = isIllustrated(frec)
    /\ fpc' = "done"
    /\ UNCHANGED frec
    /\ UNCHANGED trackerVars

InitIllustrated ==
    /\ TrackerInit
    /\ \E l \in LeaderSamples : frec = [leader |-> l, controls |-> <<>>, fields |-> <<>>]
    /\ fpc = "build"
    /\ fout = <<>>

NextIllustrated ==
    \/ \E f \in FixedFieldSamples : AddFixedField(f)
    \/ \E f \in PhysicalFieldSamples : AddPhysicalField(f)
    \/ CallIsIllustrated

SpecIllustrated == InitIllustrated /\ [][NextIllustrated]_vars

\* Some character of the text at one of the offsets, which the text must reach, is
\* an illustration code.
CodeLetters == {"a", "b", "c", "d", "e", "f", "g", "h", "i", "j", "k", "l", "m", "o", "p"}
HasCode(text, offsets) ==
    \E i \in offsets : i < Len(text) /\ text[i + 1] \in CodeLetters

\* Some 300 $b holds "ill." or "illus.", whatever the case of its letters.
PhysicalSaysIllustrated(record) ==
    \E i \in 1..Len(record.fields) :
        /\ record.fields[i].tag = "300"
        /\ \E j \in 1..Len(record.fields[i].subfields) :
               /\ record.fields[i].subfields[j].code = "b"
               /\ \/ contains(toLowerCase(record.fields[i].subfields[j].data), StrIll)
                  \/ contains(toLowerCase(record.fields[i].subfields[j].data),
                              toLowerCase(StrIllusCap))

First008(record) == getVariableField(record, "008")

MaxCallFields == 2

\* String.split(":"): the pieces between the colons.  (Java drops trailing empty
\* pieces; every empty piece is shorter than a tag and is skipped by the callers.)
RECURSIVE splitFrom(_, _, _)
splitFrom(str, piece, pieces) ==
    IF str = <<>> THEN Append(pieces, piece)
    ELSE IF Head(str) = ":" THEN splitFrom(Tail(str), <<>>, Append(pieces, piece))
    ELSE splitFrom(Tail(str), Append(piece, Head(str)), pieces)

split(fieldSpec) == splitFrom(fieldSpec, <<>>, <<>>)

\* String dfTag = tag.substring(0, 3);  sfSpec = tag.length() > 3 ? tag.substring(3) : null
dfTagOf(tag) == SubSeq(tag, 1, 3)
sfSpecOf(tag) == IF Len(tag) > 3 THEN SubSeq(tag, 4, Len(tag)) ELSE Null

\* record.getVariableFields(dfTag), the tags being strings of characters.
getFieldsByTag(record, dfTag) == SelectSeq(record.fields, LAMBDA f : f.tag = dfTag)

\* df.getSubfieldsAsString(sfSpec): the data of the subfields named in sfSpec, of
\* all subfields when sfSpec is null, one after the other.
RECURSIVE concatData(_, _)
concatData(subfields, sfSpec) ==
    IF subfields = <<>> THEN <<>>
    ELSE (IF sfSpec = Null \/ Head(subfields).code \in Range(sfSpec)
          THEN Head(subfields).data ELSE <<>>)
         \o concatData(Tail(subfields), sfSpec)

getSubfieldsAsString(df, sfSpec) == concatData(df.subfields, sfSpec)

\* The loop over df.getSubfields(callTypeSf): callTypeMatch.
RECURSIVE typeLoop(_, _, _)
typeLoop(typeSfs, callType, callTypeMatch) ==
    IF typeSfs = <<>> THEN callTypeMatch
    ELSE typeLoop(Tail(typeSfs), callType,
                  IF Head(typeSfs).data = callType THEN TRUE ELSE callTypeMatch)

callTypeMatches(df, callTypeSf, callType) ==
    typeLoop(getSubfields(df, callTypeSf), callType, FALSE)

\* result.add(x) on the collection handed in: a LinkedHashSet or an ArrayList.
Collect(result, x) ==
    IF result.kind = "LinkedHashSet"
    THEN [result EXCEPT !.items = SetAdd(@, x)]
    ELSE [result EXCEPT !.items = Append(@, x)]

\* The loop over the fields of one tag in the collector.
RECURSIVE collectFields(_, _, _, _, _)
collectFields(fields, sfSpec, callTypeSf, callType, result) ==
    IF fields = <<>> THEN result
    ELSE collectFields(Tail(fields), sfSpec, callTypeSf, callType,
                       IF callTypeMatches(Head(fields), callTypeSf, callType)
                       THEN Collect(result, getSubfieldsAsString(Head(fields), sfSpec))
                       ELSE result)

\* The loop over the tokens of fieldSpec in the collector.
RECURSIVE collectTags(_, _, _, _, _)
collectTags(record, tags, callTypeSf, callType, result) ==
    IF tags = <<>> THEN result
    ELSE LET tag == Head(tags)
         IN  IF Len(tag) < 3
             THEN collectTags(record, Tail(tags), callTypeSf, callType, result)
             ELSE collectTags(record, Tail(tags), callTypeSf, callType,
                      collectFields(getFieldsByTag(record, dfTagOf(tag)), sfSpecOf(tag),
                                    callTypeSf, callType, result))

\* The loop over the tokens when a token shorter than a tag ends it.
RECURSIVE collectTagsAborting(_, _, _, _, _)
collectTagsAborting(record, tags, callTypeSf, callType, result) ==
    IF tags = <<>> THEN result
    ELSE LET tag == Head(tags)
         IN  IF Len(tag) < 3 THEN result
             ELSE collectTagsAborting(record, Tail(tags), callTypeSf, callType,
                      collectFields(getFieldsByTag(record, dfTagOf(tag)), sfSpecOf(tag),
                                    callTypeSf, callType, result))

getCallNumberByTypeCollectorAborting(record, fieldSpec, callTypeSf, callType, result) ==
    collectTagsAborting(record, split(fieldSpec), callTypeSf, callType, result)

getCallNumberByTypeCollector(record, fieldSpec, callTypeSf, callType, result) ==
    collectTags(record, split(fieldSpec), callTypeSf, callType, result)

getCallNumberByType(record, fieldSpec, callTypeSf, callType) ==
    getCallNumberByTypeCollector(record, fieldSpec, callTypeSf, callType,
                                 [kind |-> "LinkedHashSet", items |-> <<>>]).items

getCallNumberByTypeAsList(record, fieldSpec, callTypeSf, callType) ==
    getCallNumberByTypeCollector(record, fieldSpec, callTypeSf, callType,
                                 [kind |-> "ArrayList", items |-> <<>>]).items

\* new LCCallNumber(s).getShelfKey() and new DeweyCallNumber(s).getShelfKey(): the
\* library's sort keys, kept as one-to-one functions of the call number.
LCShelfKey(callNumber) == <<"LC shelf key of">> \o callNumber
DeweyShelfKey(callNumber) == <<"Dewey shelf key of">> \o callNumber
ShelfKey(scheme, callNumber) ==
    IF scheme = "LC" THEN LCShelfKey(callNumber) ELSE DeweyShelfKey(callNumber)

\* The loop over the fields of one tag in the sortable methods: the first field
\* whose type matches sets sortKey and leaves this loop.
RECURSIVE sortFields(_, _, _, _, _, _)
sortFields(fields, sfSpec, callTypeSf, callType, scheme, sortKey) ==
    IF fields = <<>> THEN sortKey
    ELSE IF callTypeMatches(Head(fields), callTypeSf, callType)
         THEN ShelfKey(scheme, getSubfieldsAsString(Head(fields), sfSpec))
    ELSE sortFields(Tail(fields), sfSpec, callTypeSf, callType, scheme, sortKey)

\* The loop over the tokens of fieldSpec in the sortable methods: it goes on to the
\* next token whether or not sortKey is set.
RECURSIVE sortTags(_, _, _, _, _, _)
sortTags(record, tags, callTypeSf, callType, scheme, sortKey) ==
    IF tags = <<>> THEN sortKey
    ELSE LET tag == Head(tags)
         IN  IF Len(tag) < 3
             THEN sortTags(record, Tail(tags), callTypeSf, callType, scheme, sortKey)
             ELSE sortTags(record, Tail(tags), callTypeSf, callType, scheme,
                      sortFields(getFieldsByTag(record, dfTagOf(tag)), sfSpecOf(tag),
                                 callTypeSf, callType, scheme, sortKey))

getLCSortableByType(record, fieldSpec, callTypeSf, callType) ==
    sortTags(record, split(fieldSpec), callTypeSf, callType, "LC", Null)

getDeweySortableByType(record, fieldSpec, callTypeSf, callType) ==
    sortTags(record, split(fieldSpec), callTypeSf, callType, "Dewey", Null)

\* Call numbers, type codes and field specifications.
StrQA76 == <<"Q", "A", "7", "6">>
StrDotA1 == <<".", "A", "1">>
StrZ1 == <<"Z", "1">>
Str5192 == <<"5", "1", "9", ".", "2">>
StrPS3 == <<"P", "S", "3">>
StrHD9 == <<"H", "D", "9">>
StrLC == <<"L", "C">>
StrLcLower == <<"l", "c">>
StrDDC == <<"D", "D", "C">>
CallTypeSf == "w"
CallTypes == {StrLC, StrDDC}
FieldSpecSamples ==
    { <<"0", "9", "9", "a", "b", ":", "0", "9", "0">>, <<"0", "9", ":", "0", "9", "0", "a">>, <<"0", "9", "0", "a", ":", "0", "9", "9", "a">>, <<"0", ":", "9">>, <<"0", "9", "9", "b", ":">> }

CallSubfieldLists ==
    { <<Sub("a", StrQA76), Sub("b", StrDotA1), Sub("w", StrLC)>>,
      <<Sub("a", StrZ1), Sub("b", StrDotA1)>>,
      <<Sub("a", Str5192), Sub("w", StrDDC)>>,
      <<Sub("a", StrPS3), Sub("w", StrLcLower)>>,
      <<Sub("w", StrDDC), Sub("a", StrHD9), Sub("w", StrLC)>> }

CallFieldSamples ==
    { [tag |-> t, ind2 |-> " ", subfields |-> sl] :
        t \in {<<"0", "9", "0">>, <<"0", "9", "9">>}, sl \in CallSubfieldLists }

CallOps == {"getCallNumberByType", "getCallNumberByTypeAsList",
            "getLCSortableByType", "getDeweySortableByType"}

AddCallField(f) ==
    /\ fpc = "build"
    /\ Len(frec.fields) < MaxCallFields
    /\ frec' = [frec EXCEPT !.fields = Append(@, f)]
    /\ UNCHANGED <<fpc, fout>>
    /\ UNCHANGED trackerVars

CallByType(op, fieldSpec, callType) ==
    /\ fpc = "build"
    /\ fout' = [op |-> op, fieldSpec |-> fieldSpec, callType |-> callType,
                result |->
                    CASE op = "getCallNumberByType" ->
                             getCallNumberByType(frec, fieldSpec, CallTypeSf, callType)
                      [] op = "getCallNumberByTypeAsList" ->
                             getCallNumberByTypeAsList(frec, fieldSpec, CallTypeSf, callType)
                      [] op = "getLCSortableByType" ->
                             getLCSortableByType(frec, fieldSpec, CallTypeSf, callType)
                      [] op = "getDeweySortableByType" ->
                             getDeweySortableByType(frec, fieldSpec, CallTypeSf, callType)]
    /\ fpc' = "done"
    /\ UNCHANGED frec
    /\ UNCHANGED trackerVars

InitByType == TrackerInit /\ ExtractorInit

NextByType ==
    \/ \E f \in CallFieldSamples : AddCallField(f)
    \/ \E op \in CallOps, fs \in FieldSpecSamples, ct \in CallTypes : CallByType(op, fs, ct)

SpecByType == InitByType /\ [][NextByType]_vars

\* The tokens of a field specification that are long enough to name a tag.
ValidTokens(fieldSpec) == SelectSeq(split(fieldSpec), LAMBDA tag : Len(tag) >= 3)

\* A field has a call-type subfield whose value is the type code.
HasType(f, callType) ==
    \E j \in 1..Len(f.subfields) :
        f.subfields[j].code = CallTypeSf /\ f.subfields[j].data = callType

\* The data of the subfields a token names, of all subfields when it names none.
Configured(f, tag) ==
    LET named == SelectSeq(f.subfields,
                           LAMBDA sf : Len(tag) = 3 \/ sf.code \in Range(SubSeq(tag, 4, Len(tag))))
    IN  Flatten([j \in 1..Len(named) |-> named[j].data])

\* For one token, the values of the matching fields of its tag, in field order.
MatchesOfToken(record, tag, callType) ==
    LET fs == SelectSeq(record.fields,
                        LAMBDA f : f.tag = SubSeq(tag, 1, 3) /\ HasType(f, callType))
    IN  [j \in 1..Len(fs) |-> Configured(fs[j], tag)]

\* The values of the matching fields, in token order and then field order.
MatchesInOrder(record, fieldSpec, callType) ==
    LET toks == ValidTokens(fieldSpec)
    IN  Flatten([k \in 1..Len(toks) |-> MatchesOfToken(record, toks[k], callType)])

\* C15: getCallNumberByType passes over the tokens shorter than 3 characters and
\* goes on with the others; its result is, without duplicates, the concatenated
\* configured subfields (all subfields when the token names none) of the fields of
\* each valid token's tag that have a call-type subfield equal to the type code, in
\* token order and then field order, and nothing else; as a list, the same values
\* with their repetitions.
C15_CallNumbersOfType ==
    fpc = "done" =>
        /\ fout.op = "getCallNumberByType" =>
               fout.result = FirstOccurrences(MatchesInOrder(frec, fout.fieldSpec, fout.callType))
        /\ fout.op = "getCallNumberByTypeAsList" =>
               fout.result = MatchesInOrder(frec, fout.fieldSpec, fout.callType)

\* The specification starts with a token too short to be a tag, and the field of
\* the token after it that carries the type code is collected, the one that carries
\* another code is not.
C15_Witness ==
    /\ fpc = "done"
    /\ fout.op = "getCallNumberByType"
    /\ fout.fieldSpec = <<"0", "9", ":", "0", "9", "0", "a">>
    /\ fout.callType = StrLC
    /\ Len(frec.fields) = 2
    /\ frec.fields[1].tag = <<"0", "9", "0">> /\ frec.fields[1].subfields[1].data = Str5192
    /\ frec.fields[2].tag = <<"0", "9", "0">> /\ frec.fields[2].subfields[1].data = StrQA76
    /\ fout.result = <<StrQA76>>

\* C16: getLCSortableByType and getDeweySortableByType return the shelf key of the
\* first field, in token order and then field order, whose call-type subfield equals
\* the type code, also when fields of later tokens match, and null when none does.
C16_FirstMatchInTokenOrder ==
    (fpc = "done" /\ fout.op \in {"getLCSortableByType", "getDeweySortableByType"}) =>
        LET matches == MatchesInOrder(frec, fout.fieldSpec, fout.callType)
            scheme == IF fout.op = "getLCSortableByType" THEN "LC" ELSE "Dewey"
        IN  fout.result = IF matches = <<>> THEN Null ELSE ShelfKey(scheme, matches[1])

\* ---------------------------------------------------------------------------
\* getLCSortable: the shelf key of the first valid LC call number.
\* ---------------------------------------------------------------------------

\* Records built for getLCSortable and getDeweyNumber hold at most this many
\* call number fields.
MaxCallNumberFields == 3

\* getFieldList(record, fieldSpec) for a data field tag followed by one subfield
\* code: the trimmed data of every such subfield, as a set in record order.
RECURSIVE addSubfieldData(_, _)
addSubfieldData(subfields, resultSet) ==
    IF subfields = <<>> THEN resultSet
    ELSE addSubfieldData(Tail(subfields), SetAdd(resultSet, Trim(Head(subfields).data)))

RECURSIVE subfieldDataFrom(_, _, _)
subfieldDataFrom(fields, code, resultSet) ==
    IF fields = <<>> THEN resultSet
    ELSE subfieldDataFrom(Tail(fields), code,
                          addSubfieldData(getSubfields(Head(fields), code), resultSet))

getSubfieldDataAsSet(record, fieldSpec) ==
    subfieldDataFrom(getFieldsByTag(record, dfTagOf(fieldSpec)), fieldSpec[4], <<>>)

\* new LCCallNumber(s).isValid(): one to three capital letters, then a digit.
IsCapital(ch) == \E k \in 1..Len(UpperCase) : UpperCase[k] = ch
LCIsValid(callNumber) ==
    \E n \in 1..3 :
        /\ Len(callNumber) > n
        /\ \A i \in 1..n : IsCapital(callNumber[i])
        /\ IsDigit(callNumber[n + 1])

\* for (String current : input)
RECURSIVE lcLoop(_, _)
lcLoop(input, firstFound) ==
    IF input = <<>> THEN LCShelfKey(firstFound)
    ELSE IF LCIsValid(Head(input)) THEN LCShelfKey(Head(input))
    ELSE lcLoop(Tail(input), IF Len(firstFound) = 0 THEN Head(input) ELSE firstFound)

\* The loop with firstFound set at every pass.
RECURSIVE lcLoopLastCall(_, _)
lcLoopLastCall(input, firstFound) ==
    IF input = <<>> THEN LCShelfKey(firstFound)
    ELSE IF LCIsValid(Head(input)) THEN LCShelfKey(Head(input))
    ELSE lcLoopLastCall(Tail(input), Head(input))

getLCSortableLastCall(record, fieldSpec) ==
    lcLoopLastCall(getSubfieldDataAsSet(record, fieldSpec), <<>>)

getLCSortable(record, fieldSpec) ==
    lcLoop(getSubfieldDataAsSet(record, fieldSpec), <<>>)

StrMLCS == <<"M", "L", "C", "S">>
Spec050a == <<"0", "5", "0", "a">>
Tag050 == <<"0", "5", "0">>

LCFieldSamples ==
    { [tag |-> Tag050, ind2 |-> " ", subfields |-> sl] :
        sl \in { <<Sub("a", StrQA76)>>,
                 <<Sub("a", StrPS3)>>,
                 <<Sub("a", Str5192)>>,
                 <<Sub("a", StrMLCS)>>,
                 <<Sub("a", StrBlank)>>,
                 <<Sub("a", Str5192), Sub("a", StrQA76)>>,
                 <<Sub("b", StrDotA1)>> } }

AddCallNumberField(f) ==
    /\ fpc = "build"
    /\ Len(frec.fields) < MaxCallNumberFields
    /\ frec' = [frec EXCEPT !.fields = Append(@, f)]
    /\ UNCHANGED <<fpc, fout>>
    /\ UNCHANGED trackerVars

CallGetLCSortable ==
    /\ fpc = "build"
    /\ fout' = getLCSortable(frec, Spec050a)
    /\ fpc' = "done"
    /\ UNCHANGED frec
    /\ UNCHANGED trackerVars

InitLCSortable == TrackerInit /\ ExtractorInit

NextLCSortable ==
    \/ \E f \in LCFieldSamples : AddCallNumberField(f)
    \/ CallGetLCSortable

SpecLCSortable == InitLCSortable /\ [][NextLCSortable]_vars

\* The values extracted from the 050 $a subfields of the record.
Extracted050a(record) == getSubfieldDataAsSet(record, Spec050a)

\* C17 (as stated): getLCSortable returns the shelf key of the first extracted value
\* that is a valid LC call number; when none is valid, the shelf key of the first
\* extracted value; when nothing is extracted, the shelf key of the empty string.
C17_FirstValidElseFirst ==
    fpc = "done" =>
        LET input == Extracted050a(frec)
            valid == SelectSeq(input, LCIsValid)
        IN  fout = IF valid # <<>> THEN LCShelfKey(valid[1])
                   ELSE IF input # <<>> THEN LCShelfKey(input[1])
                   ELSE LCShelfKey(<<>>)

\* C17 (amended): when no extracted value is valid, the shelf key is that of the
\* first extracted value that is not the empty string, and that of the empty string
\* when there is none.
C17_FirstValidElseFirstNonEmpty ==
    fpc = "done" =>
        LET input == Extracted050a(frec)
            valid == SelectSeq(input, LCIsValid)
            nonEmpty == SelectSeq(input, LAMBDA v : v # <<>>)
        IN  fout = IF valid # <<>> THEN LCShelfKey(valid[1])
                   ELSE IF nonEmpty # <<>> THEN LCShelfKey(nonEmpty[1])
                   ELSE LCShelfKey(<<>>)

\* No extracted value is valid, the first one is empty, and the key is that of the
\* second one.
C17_Witness ==
    /\ fpc = "done"
    /\ Extracted050a(frec) = << <<>>, StrMLCS, Str5192 >>
    /\ fout = LCShelfKey(StrMLCS)

\* ---------------------------------------------------------------------------
\* getDeweyNumber: the classification number cut down to a precision.
\* ---------------------------------------------------------------------------

\* Java float: a positive value is m / 2^sh with 2^23 <= m < 2^24 (24 significant
\* bits), zero is m = 0.  Every step below rounds to nearest, ties to even, as the
\* float operations of the Java virtual machine do.
RECURSIVE Pow2(_)
Pow2(k) == IF k = 0 THEN 1 ELSE 2 * Pow2(k - 1)

RECURSIVE Pow10(_)
Pow10(k) == IF k = 0 THEN 1 ELSE 10 * Pow10(k - 1)

RECURSIVE BitLen(_)
BitLen(x) == IF x = 0 THEN 0 ELSE 1 + BitLen(x \div 2)

FloatZero == [m |-> 0, sh |-> 0]

\* Rounding of a 24-bit quotient m with remainder r of the divisor den.
RoundRatio(m, sh, r, den) ==
    LET up == 2 * r > den \/ (2 * r = den /\ m % 2 = 1)
        m1 == IF up THEN m + 1 ELSE m
    IN  IF m1 = Pow2(24) THEN [m |-> Pow2(23), sh |-> sh - 1] ELSE [m |-> m1, sh |-> sh]

\* Binary long division of r by den, one bit a step, until m has 24 bits.
RECURSIVE RatioBits(_, _, _, _)
RatioBits(m, sh, r, den) ==
    IF m >= Pow2(23) THEN RoundRatio(m, sh, r, den)
    ELSE RatioBits(2 * m + (IF 2 * r >= den THEN 1 ELSE 0), sh + 1, (2 * r) % den, den)

\* The float nearest to n / den (n < 2^24 * den).
Ratio(n, den) == IF n = 0 THEN FloatZero ELSE RatioBits(n \div den, 0, n % den, den)

\* The text of a decimal number as <<n, d>>: the number is n / 10^d.
DotAt(str) == IF \E i \in 1..Len(str) : str[i] = "."
              THEN CHOOSE i \in 1..Len(str) : str[i] = "." ELSE Len(str) + 1
DecimalOf(str) ==
    LET dot == DotAt(str)
        d == IF dot > Len(str) THEN 0 ELSE Len(str) - dot
    IN  <<NumAt(str, 1, dot - 1) * Pow10(d) + NumAt(str, dot + 1, Len(str)), d>>

\* Float.parseFloat(String) for an unsigned decimal number.
parseFloat(str) == Ratio(DecimalOf(str)[1], Pow10(DecimalOf(str)[2]))

\* float / float
floatDiv(a, b) ==
    IF a.m = 0 THEN FloatZero
    ELSE LET q == Ratio(a.m, b.m) IN [m |-> q.m, sh |-> q.sh + a.sh - b.sh]

\* Math.floor of a float that is not negative, as an integer.
floor(a) == IF a.sh >= 24 THEN 0 ELSE a.m \div Pow2(a.sh)

\* new Float(k * (double) p) for an integer k, 0 <= k < 2^14: the product is exact
\* as a double, and is computed here in two 12-bit halves of p.m, then rounded to
\* 24 bits.
timesToFloat(k, p) ==
    IF k = 0 \/ p.m = 0 THEN FloatZero
    ELSE LET hi == p.m \div Pow2(12)
             lo == p.m % Pow2(12)
             A == k * hi + (k * lo) \div Pow2(12)
             B == (k * lo) % Pow2(12)
             s == BitLen(A) - 12
             m0 == IF s <= 12 THEN A * Pow2(12 - s) + B \div Pow2(s)
                   ELSE A \div Pow2(s - 12)
             rem == IF s <= 12 THEN B % Pow2(s)
                    ELSE (A % Pow2(s - 12)) * Pow2(12) + B
         IN  RoundRatio(m0, p.sh - s, rem, Pow2(s))

\* The first d decimals of r / 2^sh, and what is left: <<f, rem>>.
RECURSIVE Decimals(_, _, _, _)
Decimals(f, rem, sh, d) ==
    IF d = 0 THEN <<f, rem>>
    ELSE Decimals(f * 10 + (rem * 10) \div Pow2(sh), (rem * 10) % Pow2(sh), sh, d - 1)

\* The float rounded to d decimals, as <<n, d>>.
RoundedTo(a, d) ==
    LET ip == a.m \div Pow2(a.sh)
        fr == Decimals(0, a.m % Pow2(a.sh), a.sh, d)
        f == IF 2 * fr[2] >= Pow2(a.sh) THEN fr[1] + 1 ELSE fr[1]
    IN  <<ip * Pow10(d) + f, d>>

\* Float.toString: the decimal with the fewest digits that parses back to the same
\* float, as <<n, d>>.
RECURSIVE ShortestFrom(_, _)
ShortestFrom(a, d) ==
    IF Ratio(RoundedTo(a, d)[1], Pow10(d)) = a THEN RoundedTo(a, d) ELSE ShortestFrom(a, d + 1)

floatToString(a) == IF a.m = 0 THEN <<0, 0>> ELSE ShortestFrom(a, 0)

\* The digits of n in at least width places.
RECURSIVE DigitsOf(_, _)
DigitsOf(n, width) ==
    IF n = 0 /\ width <= 0 THEN <<>>
    ELSE Append(DigitsOf(n \div 10, width - 1), Digits[(n % 10) + 1])

RECURSIVE StripZeros(_)
StripZeros(str) ==
    IF str # <<>> /\ str[Len(str)] = "0" THEN StripZeros(SubSeq(str, 1, Len(str) - 1))
    ELSE str

\* CallNumUtils.normalizeFloat(text, 3, -1) of the decimal n / 10^d: at least three
\* digits before the point, the fraction as it is without the zeros that end it, and
\* no point when there is no fraction.
normalizeFloat(dec) ==
    LET ip == DigitsOf(dec[1] \div Pow10(dec[2]), 3)
        fr == StripZeros(DigitsOf(dec[1] % Pow10(dec[2]), dec[2]))
    IN  IF fr = <<>> THEN ip ELSE ip \o <<".">> \o fr

\* new DeweyCallNumber(s): the classification is one to three digits and an
\* optional fraction at the start of the call number; the call number is valid when
\* that is all of it or a space follows.
ClassificationEnd(str) ==
    LET intEnd == DigitRunEnd(str, 0)
    IN  IF intEnd + 2 <= Len(str) /\ str[intEnd + 1] = "." /\ IsDigit(str[intEnd + 2])
        THEN DigitRunEnd(str, intEnd + 1)
        ELSE intEnd

DeweyIsValid(str) ==
    /\ DigitRunEnd(str, 0) \in 1..3
    /\ ClassificationEnd(str) = Len(str) \/ str[ClassificationEnd(str) + 1] = " "

getClassification(str) == SubSeq(str, 1, ClassificationEnd(str))

\* for (String current : input), with precision already parsed.
RECURSIVE deweyLoop(_, _, _)
deweyLoop(input, precision, result) ==
    IF input = <<>> THEN result
    ELSE IF DeweyIsValid(Head(input))
         THEN LET currentVal == parseFloat(getClassification(Head(input)))
                  finalVal == timesToFloat(floor(floatDiv(currentVal, precision)), precision)
              IN  deweyLoop(Tail(input), precision,
                            SetAdd(result, normalizeFloat(floatToString(finalVal))))
    ELSE deweyLoop(Tail(input), precision, result)

getDeweyNumber(record, fieldSpec, precisionStr) ==
    LET result == deweyLoop(getSubfieldDataAsSet(record, fieldSpec),
                            parseFloat(precisionStr), <<>>)
    IN  IF result = <<>> THEN Null ELSE result

Str519283 == <<"5", "1", "9", ".", "2", "8", "3">>
Str21 == <<"2", ".", "1">>
Str0051 == <<"0", "0", "5", ".", "1">>
Str81354Cutter == <<"8", "1", "3", ".", "5", "4", " ", "R", "4", "2">>
Spec082a == <<"0", "8", "2", "a">>
Tag082 == <<"0", "8", "2">>
PrecisionSamples == { <<"0", ".", "1">>, <<"1">>, <<"1", "0">>, <<"1", "0", "0">> }

DeweyFieldSamples ==
    { [tag |-> Tag082, ind2 |-> " ", subfields |-> sl] :
        sl \in { <<Sub("a", Str519283)>>,
                 <<Sub("a", Str21)>>,
                 <<Sub("a", Str0051)>>,
                 <<Sub("a", Str81354Cutter)>>,
                 <<Sub("a", StrQA76)>>,
                 <<Sub("a", Str5192), Sub("a", Str519283)>> } }

CallGetDeweyNumber(precisionStr) ==
    /\ fpc = "build"
    /\ fout' = [precisionStr |-> precisionStr,
                result |-> getDeweyNumber(frec, Spec082a, precisionStr)]
    /\ fpc' = "done"
    /\ UNCHANGED frec
    /\ UNCHANGED trackerVars

InitDeweyNumber == TrackerInit /\ ExtractorInit

NextDeweyNumber ==
    \/ \E f \in DeweyFieldSamples : AddCallNumberField(f)
    \/ \E p \in PrecisionSamples : CallGetDeweyNumber(p)

SpecDeweyNumber == InitDeweyNumber /\ [][NextDeweyNumber]_vars

\* A decimal number of at most three decimals, in thousandths.
Thousandths(str) == DecimalOf(str)[1] * Pow10(3 - DecimalOf(str)[2])

\* The classification number cut down to a multiple of the precision, written with
\* three integer digits and three decimals: 519.283 at 0.1 is "519.200".
CutDown(classification, precisionStr) ==
    LET cut == (Thousandths(classification) \div Thousandths(precisionStr))
                   * Thousandths(precisionStr)
    IN  DigitsOf(cut \div 1000, 3) \o <<".">> \o DigitsOf(cut % 1000, 3)

\* A number without the zeros that end its fraction (and without a bare point).
SameNumber(text) ==
    LET t == IF \E i \in 1..Len(text) : text[i] = "." THEN StripZeros(text) ELSE text
    IN  IF t # <<>> /\ t[Len(t)] = "." THEN SubSeq(t, 1, Len(t) - 1) ELSE t

\* C18: getDeweyNumber returns, for each valid Dewey call number among the
\* extracted values, its classification number cut down to a multiple of the
\* precision and written with three integer digits (519.283 at 0.1 gives 519.200,
\* the zeros that end a fraction not being counted as a difference); invalid call
\* numbers add nothing, and the result is null when no extracted value is valid.
C18_CutDownToPrecision ==
    fpc = "done" =>
        LET input == SelectSeq(getSubfieldDataAsSet(frec, Spec082a), DeweyIsValid)
            expected == FirstOccurrences(
                            [i \in 1..Len(input) |->
                                SameNumber(CutDown(getClassification(input[i]),
                                                   fout.precisionStr))])
        IN  IF input = <<>> THEN fout.result = Null
            ELSE fout.result = expected

\* The same for the precisions 1, 10 and 100 only.
DeweyWholePrecision ==
    (fpc = "done" /\ fout.precisionStr # <<"0", ".", "1">>) => C18_CutDownToPrecision

\* ---------------------------------------------------------------------------
\* convertCoordinate and coordinateToDecimal.
\* ---------------------------------------------------------------------------

\* A Double: null, or d degrees and s/3600 of a degree more, both with the sign of
\* the number.
NullDouble == [isNull |-> TRUE, d |-> 0, s |-> 0]
Double(d, s) == [isNull |-> FALSE, d |-> d, s |-> s]
Negated(x) == Double(0 - x.d, 0 - x.s)

IsHemisphere(ch) == ch \in {"e", "E", "w", "W", "n", "N", "s", "S"}

\* \d+(\.\d+)? over the whole of the text.
IsNumber(str) ==
    /\ Len(str) >= 1
    /\ IsDigit(str[1])
    /\ LET intEnd == DigitRunEnd(str, 1)
       IN  \/ intEnd = Len(str)
           \/ /\ intEnd + 2 <= Len(str)
              /\ str[intEnd + 1] = "."
              /\ AllDigits(str, intEnd + 2, Len(str))

\* HDMSHDD_PATTERN, PMDD_PATTERN and COORDINATES_PATTERN with Matcher.matches().
matchesHDMSHDD(str) == Len(str) >= 2 /\ IsHemisphere(str[1]) /\ IsNumber(Tail(str))
matchesPMDD(str) == Len(str) >= 2 /\ str[1] \in {"+", "-"} /\ IsNumber(Tail(str))
matchesCOORDINATES(str) == Len(str) = 8 /\ IsHemisphere(str[1]) /\ AllDigits(str, 2, 8)

\* Double.parseDouble of a number whose fraction is a whole number of seconds.
parseDouble(str) ==
    LET dec == DecimalOf(str)
    IN  Double(dec[1] \div Pow10(dec[2]), ((dec[1] % Pow10(dec[2])) * 3600) \div Pow10(dec[2]))

\* x > limit for a Double that is not negative and a whole limit.
Exceeds(x, limit) == x.d > limit \/ (x.d = limit /\ x.s > 0)

coordinateToDecimal(coordinateStr) ==
    IF matchesCOORDINATES(coordinateStr)
    THEN LET hemisphere == toLowerCase(<<coordinateStr[1]>>)[1]
             degrees == NumAt(coordinateStr, 2, 4)
             minutes == NumAt(coordinateStr, 5, 6)
             seconds == NumAt(coordinateStr, 7, 8)
             coordinate == Double(degrees + (minutes * 60 + seconds) \div 3600,
                                  (minutes * 60 + seconds) % 3600)
         IN  IF hemisphere \in {"w", "s"} THEN Negated(coordinate) ELSE coordinate
    ELSE NullDouble

convertCoordinate(coordinateStr) ==
    IF matchesHDMSHDD(coordinateStr)
    THEN LET hemisphere == toLowerCase(<<coordinateStr[1]>>)[1]
             group2 == Tail(coordinateStr)
             degrees == parseDouble(group2)
         IN  IF hemisphere \in {"n", "s"}
             THEN IF Exceeds(degrees, 90)
                  THEN coordinateToDecimal(<<coordinateStr[1], "0">> \o group2)
                  ELSE IF hemisphere = "s" THEN Negated(degrees) ELSE degrees
             ELSE IF Exceeds(degrees, 180)
                  THEN coordinateToDecimal(coordinateStr)
                  ELSE IF hemisphere = "w" THEN Negated(degrees) ELSE degrees
    ELSE IF matchesPMDD(coordinateStr)
    THEN IF coordinateStr[1] = "-" THEN Negated(parseDouble(Tail(coordinateStr)))
         ELSE parseDouble(Tail(coordinateStr))
    ELSE NullDouble

\* Coordinate strings: a prefix and what follows it.
CoordinatePrefixes == {<<"N">>, <<"S">>, <<"E">>, <<"W">>, <<"s">>, <<"e">>,
                       <<"+">>, <<"-">>, <<"X">>, <<>>}
CoordinateNumbers ==
    { <<"4", "5", ".", "5">>, <<"9", "0">>, <<"9", "0", ".", "2", "5">>, <<"9", "1">>, <<"1", "8", "0">>, <<"1", "8", "1">>, <<"4", "5", "3", "0", "0", "0">>, <<"0", "4", "5", "3", "0", "0", "0">>,
      <<"1", "2", "0", "3", "0", "0", "0">>, <<"0", "2", "0", "0", "0", "0", "0">>, <<"1", "2", "x">>, <<"1", ".", "2", ".", "3">>, <<>> }

CallConvertCoordinate ==
    /\ fpc = "build"
    /\ fout' = convertCoordinate(frec.coordinateStr)
    /\ fpc' = "done"
    /\ UNCHANGED frec
    /\ UNCHANGED trackerVars

InitCoordinate ==
    /\ TrackerInit
    /\ \E p \in CoordinatePrefixes, n \in CoordinateNumbers : frec = [coordinateStr |-> p \o n]
    /\ fpc = "build"
    /\ fout = <<>>

NextCoordinate == CallConvertCoordinate

SpecCoordinate == InitCoordinate /\ [][NextCoordinate]_vars

\* deg + min/60 + sec/3600 of seven digits read as three, two and two.
FixedWidthValue(digits) ==
    Double(NumAt(digits, 1, 3) + (NumAt(digits, 4, 5) * 60 + NumAt(digits, 6, 7)) \div 3600,
           (NumAt(digits, 4, 5) * 60 + NumAt(digits, 6, 7)) % 3600)

\* C19: for a hemisphere letter followed by a number, when the number exceeds 90
\* (N/S) or 180 (E/W) and is seven digits, convertCoordinate returns deg + min/60 +
\* sec/3600 of its three degree digits, two minute digits and two second digits;
\* when it does not exceed the limit, the number itself; both negated for S and W.
\* For + or - followed by a number it returns the number, negated for -.  For every
\* other string it returns null.
C19_ConvertCoordinate ==
    fpc = "done" =>
        LET str == frec.coordinateStr
            letter == toLowerCase(<<str[1]>>)[1]
            number == Tail(str)
            limit == IF letter \in {"n", "s"} THEN 90 ELSE 180
            signed(x) == IF letter \in {"s", "w"} THEN Negated(x) ELSE x
        IN  IF Len(str) >= 2 /\ IsHemisphere(str[1]) /\ IsNumber(number)
            THEN IF Exceeds(parseDouble(number), limit)
                 THEN (Len(number) = 7 /\ AllDigits(number, 1, 7))
                          => fout = signed(FixedWidthValue(number))
                 ELSE fout = signed(parseDouble(number))
            ELSE IF Len(str) >= 2 /\ str[1] \in {"+", "-"} /\ IsNumber(number)
            THEN fout = IF str[1] = "-" THEN Negated(parseDouble(number))
                        ELSE parseDouble(number)
            ELSE fout = NullDouble

\* The same with the degrees of a latitude written in two digits (six digits in all).
CoordinateSixDigitLatitude ==
    fpc = "done" =>
        LET str == frec.coordinateStr
            letter == toLowerCase(<<str[1]>>)[1]
            number == Tail(str)
            isLat == letter \in {"n", "s"}
            signed(x) == IF letter \in {"s", "w"} THEN Negated(x) ELSE x
        IN  (Len(str) >= 2 /\ IsHemisphere(str[1]) /\ IsNumber(number)
                /\ Exceeds(parseDouble(number), IF isLat THEN 90 ELSE 180)) =>
                fout = IF AllDigits(number, 1, Len(number))
                          /\ Len(number) = (IF isLat THEN 6 ELSE 7)
                       THEN signed(FixedWidthValue((IF isLat THEN <<"0">> ELSE <<>>) \o number))
                       ELSE NullDouble

\* ---------------------------------------------------------------------------
\* getAllCoordinates and validateCoordinates.
\* ---------------------------------------------------------------------------

\* Records built for getAllCoordinates hold at most this many 034 fields.
MaxGeoFields == 2

\* a < b for two Doubles that are not null.
LessThan(a, b) == a.d < b.d \/ (a.d = b.d /\ a.s < b.s)

validateCoordinates(west, east, north, south) ==
    IF west.isNull \/ east.isNull \/ north.isNull \/ south.isNull THEN FALSE
    ELSE IF \/ LessThan(Double(180, 0), west) \/ LessThan(west, Double(-180, 0))
            \/ LessThan(Double(180, 0), east) \/ LessThan(east, Double(-180, 0))
         THEN FALSE
    ELSE IF \/ LessThan(Double(90, 0), north) \/ LessThan(north, Double(-90, 0))
            \/ LessThan(Double(90, 0), south) \/ LessThan(south, Double(-90, 0))
         THEN FALSE
    ELSE IF LessThan(north, south) \/ LessThan(east, west) THEN FALSE
    ELSE TRUE

\* String.format("ENVELOPE(%s,%s,%s,%s)", west, east, north, south)
Envelope(west, east, north, south) ==
    [west |-> west, east |-> east, north |-> north, south |-> south]

\* df.getSubfield(code) is null when the field has no such subfield.
hasSubfield(df, code) == getSubfields(df, code) # <<>>
getSubfieldData(df, code) == Head(getSubfields(df, code)).data

IsBlank(str) == Trim(str) = <<>>

\* The body of the loop for a field that has all of d, e, f and g: the geo list
\* after it.
coordinatesOfField(df, geo) ==
    LET d0 == getSubfieldData(df, "d")
        e0 == getSubfieldData(df, "e")
        f0 == getSubfieldData(df, "f")
        g0 == getSubfieldData(df, "g")
        only2a == IsBlank(e0) /\ IsBlank(g0)
        e1 == IF only2a THEN d0 ELSE e0
        g1 == IF only2a THEN f0 ELSE g0
        only2b == IsBlank(d0) /\ IsBlank(f0)
        d1 == IF only2b THEN e1 ELSE d0
        f1 == IF only2b THEN g1 ELSE f0
        west == convertCoordinate(d1)
        east == convertCoordinate(e1)
        north == convertCoordinate(f1)
        south == convertCoordinate(g1)
    IN  IF validateCoordinates(west, east, north, south)
        THEN Append(geo, Envelope(west, east, north, south))
        ELSE geo

\* for (VariableField vf : list034): getData() on a subfield that is not there
\* throws NullPointerException out of the method.
RECURSIVE loop034(_, _)
loop034(list034, geo) ==
    IF list034 = <<>> THEN Returns(geo)
    ELSE IF \E code \in {"d", "e", "f", "g"} : ~hasSubfield(Head(list034), code)
         THEN Throws("NullPointerException")
    ELSE loop034(Tail(list034), coordinatesOfField(Head(list034), geo))

getAllCoordinates(record) == loop034(getVariableFields(record, "034"), <<>>)

StrW10 == <<"W", "1", "0">>
StrE20 == <<"E", "2", "0">>
StrN50 == <<"N", "5", "0">>
StrN40 == <<"N", "4", "0">>
StrMinus200 == <<"-", "2", "0", "0">>
StrAbc == <<"a", "b", "c">>
StrN0500000 == <<"N", "0", "5", "0", "0", "0", "0", "0">>
StrN0400000 == <<"N", "0", "4", "0", "0", "0", "0", "0">>

Subs4(d, e, f, g) == <<Sub("d", d), Sub("e", e), Sub("f", f), Sub("g", g)>>

GeoFieldSamples ==
    { [tag |-> "034", ind2 |-> " ", subfields |-> sl] :
        sl \in { Subs4(StrW10, StrE20, StrN50, StrN40),
                 Subs4(StrE20, StrE20, StrN40, StrN40),
                 Subs4(StrAbc, StrE20, StrN50, StrN40),
                 Subs4(StrW10, StrE20, StrN40, StrN50),
                 Subs4(StrMinus200, StrE20, StrN50, StrN40),
                 Subs4(StrW10, StrE20, StrN0500000, StrN0400000),
                 Subs4(StrE20, <<>>, StrN50, StrBlank),
                 Subs4(<<>>, StrW10, StrBlank, StrN40),
                 <<Sub("d", StrW10), Sub("f", StrN50)>>,
                 <<Sub("d", StrAbc), Sub("f", StrN50)>>,
                 <<Sub("a", StrAbc)>> } }

AddGeoField(f) ==
    /\ fpc = "build"
    /\ Len(frec.fields) < MaxGeoFields
    /\ frec' = [frec EXCEPT !.fields = Append(@, f)]
    /\ UNCHANGED <<fpc, fout>>
    /\ UNCHANGED trackerVars

CallGetAllCoordinates ==
    /\ fpc = "build"
    /\ fout' = getAllCoordinates(frec)
    /\ fpc' = "done"
    /\ UNCHANGED frec
    /\ UNCHANGED trackerVars

InitAllCoordinates == TrackerInit /\ ExtractorInit

NextAllCoordinates ==
    \/ \E f \in GeoFieldSamples : AddGeoField(f)
    \/ CallGetAllCoordinates

SpecAllCoordinates == InitAllCoordinates /\ [][NextAllCoordinates]_vars

\* -180 <= west <= east <= 180 and -90 <= south <= north <= 90, none of them null.
WithinBounds(env) ==
    /\ ~env.west.isNull /\ ~env.east.isNull /\ ~env.north.isNull /\ ~env.south.isNull
    /\ ~LessThan(env.west, Double(-180, 0)) /\ ~LessThan(env.east, env.west)
    /\ ~LessThan(Double(180, 0), env.east)
    /\ ~LessThan(env.south, Double(-90, 0)) /\ ~LessThan(env.north, env.south)
    /\ ~LessThan(Double(90, 0), env.north)

\* The envelope of a field that has all four coordinates, when they parse and are
\* within bounds: a list of one envelope, or of none.
GoodEnvelope(f) ==
    IF \A code \in {"d", "e", "f", "g"} :
           \E j \in 1..Len(f.subfields) :
               f.subfields[j].code = code /\ ~IsBlank(f.subfields[j].data)
    THEN LET at(code) == convertCoordinate(
                 f.subfields[CHOOSE j \in 1..Len(f.subfields) :
                                 f.subfields[j].code = code
                                 /\ \A k \in 1..(j - 1) : f.subfields[k].code # code].data)
             env == Envelope(at("d"), at("e"), at("f"), at("g"))
         IN  IF WithinBounds(env) THEN <<env>> ELSE <<>>
    ELSE <<>>

\* C20: every envelope getAllCoordinates emits has its four bounds, with
\* -180 <= west <= east <= 180 and -90 <= south <= north <= 90; a 034 field whose
\* coordinates do not parse or are out of bounds adds no envelope and raises no
\* error, and the record's other 034 fields are emitted all the same.
C20_OnlyValidEnvelopes ==
    fpc = "done" =>
        /\ fout.exc = "none"
        /\ \A i \in 1..Len(fout.value) : WithinBounds(fout.value[i])
        /\ \A i \in 1..Len(frec.fields) :
               \A env \in Range(GoodEnvelope(frec.fields[i])) : env \in Range(fout.value)

\* The same for the records whose 034 fields all have the subfields d, e, f and g.
GeoWhenAllSubfieldsPresent ==
    (fpc = "done" /\ \A i \in 1..Len(frec.fields) :
                         \A code \in {"d", "e", "f", "g"} : hasSubfield(frec.fields[i], code))
        => C20_OnlyValidEnvelopes

\* ---------------------------------------------------------------------------
\* 034 fields that give a point: one pair of coordinate subfields only.
\* ---------------------------------------------------------------------------

\* The field has no subfield with this code, or its first one is blank.
AbsentOrBlank(f, code) ==
    \A j \in 1..Len(f.subfields) :
        (f.subfields[j].code = code /\ \A k \in 1..(j - 1) : f.subfields[k].code # code)
            => IsBlank(f.subfields[j].data)

\* The data of the field's first subfield with this code.
FirstData(f, code) ==
    f.subfields[CHOOSE j \in 1..Len(f.subfields) :
                    f.subfields[j].code = code
                    /\ \A k \in 1..(j - 1) : f.subfields[k].code # code].data

Supplies(f, code) ==
    (\E j \in 1..Len(f.subfields) : f.subfields[j].code = code) /\ ~AbsentOrBlank(f, code)

\* The field supplies the pair (x, y) and not the other pair (ox, oy).
SuppliesOnly(f, x, y, ox, oy) ==
    Supplies(f, x) /\ Supplies(f, y) /\ AbsentOrBlank(f, ox) /\ AbsentOrBlank(f, oy)

\* The zero-area envelope of a longitude and a latitude.
PointEnvelope(lon, lat) ==
    Envelope(convertCoordinate(lon), convertCoordinate(lon),
             convertCoordinate(lat), convertCoordinate(lat))

\* The point envelopes the one-pair fields of a record stand for, when the pair
\* converts and lies within bounds.
PointsOf(f) ==
    LET p == IF SuppliesOnly(f, "d", "f", "e", "g")
                 THEN <<PointEnvelope(FirstData(f, "d"), FirstData(f, "f"))>>
             ELSE IF SuppliesOnly(f, "e", "g", "d", "f")
                 THEN <<PointEnvelope(FirstData(f, "e"), FirstData(f, "g"))>>
             ELSE <<>>
    IN  IF p # <<>> /\ WithinBounds(p[1]) THEN p ELSE <<>>

\* C21: a 034 field that supplies only d and f, or only e and g, the other pair
\* being absent or blank, is emitted as a zero-area envelope (west = east,
\* north = south) of the supplied pair.
C21_PointBecomesEnvelope ==
    fpc = "done" =>
        \A i \in 1..Len(frec.fields) :
            \A env \in Range(PointsOf(frec.fields[i])) :
                /\ fout.exc = "none"
                /\ env \in Range(fout.value)
                /\ env.west = env.east /\ env.north = env.south

\* The same for the records whose 034 fields all have the subfields d, e, f and
\* g: there the missing pair can only be blank.
PointWhenPairBlank ==
    (fpc = "done" /\ \A i \in 1..Len(frec.fields) :
                         \A code \in {"d", "e", "f", "g"} : hasSubfield(frec.fields[i], code))
        => C21_PointBecomesEnvelope

\* A record with a blank-pair field has been converted and its point emitted.
PointWhenPairBlankSeen ==
    /\ fpc = "done" /\ fout.exc = "none"
    /\ \E i \in 1..Len(frec.fields) :
           /\ SuppliesOnly(frec.fields[i], "e", "g", "d", "f")
           /\ PointsOf(frec.fields[i]) # <<>>
           /\ PointsOf(frec.fields[i])[1] \in Range(fout.value)

\* ---------------------------------------------------------------------------
\* sanitizeFullText.  The text is a sequence of Unicode code points (integers):
\* the pattern is applied code point by code point, a surrogate pair being one
\* code point above 65535 and a lone surrogate a code point in 55296..57343.
\* ---------------------------------------------------------------------------

\* Texts handed to sanitizeFullText hold at most this many code points.
MaxTextLen == 3

Space == 32

\* The class between [^ and ] of badChars, as java.util.regex reads it: a \u escape
\* takes four hexadecimal digits, so the last item of the class, written as
\* U+10000 to U+10FFFF, is the character U+1000, the range from '0' to U+10FF, and
\* the letter 'F' twice.
inBadCharsClass(c) ==
    \/ c = 9 \/ c = 10 \/ c = 13
    \/ (32 <= c /\ c <= 55295)
    \/ (57344 <= c /\ c <= 65533)
    \/ c = 4096
    \/ (48 <= c /\ c <= 4351)
    \/ c = 70

isBadChar(c) == ~inBadCharsClass(c)

\* text.replaceAll(badChars, " ") from a position on: inRun says that the code
\* point before belongs to a match of [^...]+ already replaced.
RECURSIVE replaceAllBadChars(_, _)
replaceAllBadChars(text, inRun) ==
    IF text = <<>> THEN <<>>
    ELSE IF isBadChar(Head(text))
         THEN (IF inRun THEN <<>> ELSE <<Space>>) \o replaceAllBadChars(Tail(text), TRUE)
    ELSE <<Head(text)>> \o replaceAllBadChars(Tail(text), FALSE)

sanitizeFullText(text) == replaceAllBadChars(text, FALSE)

\* NUL, tab, newline, vertical tab, carriage return, unit separator, space, 'a',
\* U+D7FF, a lone surrogate U+D800, U+E000, U+FFFD, U+FFFE, and U+1F600 (outside
\* the basic plane).
CodePointSamples ==
    {0, 9, 10, 11, 13, 31, 32, 97, 55295, 55296, 57344, 65533, 65534, 128512}

AddCodePoint(c) ==
    /\ fpc = "build"
    /\ Len(frec.text) < MaxTextLen
    /\ frec' = [frec EXCEPT !.text = Append(@, c)]
    /\ UNCHANGED <<fpc, fout>>
    /\ UNCHANGED trackerVars

CallSanitizeFullText ==
    /\ fpc = "build"
    /\ fout' = sanitizeFullText(frec.text)
    /\ fpc' = "done"
    /\ UNCHANGED frec
    /\ UNCHANGED trackerVars

InitSanitize ==
    /\ TrackerInit
    /\ frec = [text |-> <<>>]
    /\ fpc = "build"
    /\ fout = <<>>

NextSanitize ==
    \/ \E c \in CodePointSamples : AddCodePoint(c)
    \/ CallSanitizeFullText

SpecSanitize == InitSanitize /\ [][NextSanitize]_vars

\* The allowed set: tab, newline, carriage return, and the ranges U+0020..U+D7FF,
\* U+E000..U+FFFD and U+10000..U+10FFFF that the pattern names.
AllowedCodePoint(c) ==
    \/ c \in {9, 10, 13}
    \/ c \in 32..55295
    \/ c \in 57344..65533
    \/ c \in 65536..1114111

\* The positions of a text that stay: every allowed code point, and the first code
\* point of every run of code points that are not allowed.
StayingPositions(text) ==
    SelectSeq([i \in 1..Len(text) |-> i],
              LAMBDA i : AllowedCodePoint(text[i])
                            \/ i = 1 \/ AllowedCodePoint(text[i - 1]))

\* The text with every run of code points that are not allowed made one space.
RunsToSpaces(text) ==
    [k \in 1..Len(StayingPositions(text)) |->
        LET c == text[StayingPositions(text)[k]]
        IN  IF AllowedCodePoint(c) THEN c ELSE Space]

\* C24: sanitizeFullText puts a single space for the code points outside the
\* allowed set (one space for a run of them), leaves every allowed code point as
\* it is and where it is, leaves no code point outside the allowed set in its
\* output, and gives the same when applied to its own output.
C24_SanitizeFullText ==
    fpc = "done" =>
        /\ fout = RunsToSpaces(frec.text)
        /\ \A i \in 1..Len(fout) : AllowedCodePoint(fout[i])
        /\ sanitizeFullText(fout) = fout

\* The same for texts of the basic plane (no code point above U+FFFF).
SanitizeBasicPlane ==
    (fpc = "done" /\ \A i \in 1..Len(frec.text) : frec.text[i] <= 65535)
        => C24_SanitizeFullText

\* A text with a run of two bad code points between allowed ones has been
\* sanitized to two code points.
SanitizeBasicPlaneSeen ==
    /\ fpc = "done" /\ Len(frec.text) = 3 /\ Len(fout) = 2
    /\ \A i \in 1..Len(frec.text) : frec.text[i] <= 65535
    /\ \E i \in 1..Len(frec.text) : ~AllowedCodePoint(frec.text[i])

\* Whatever the text, the output has no code point that the pattern takes for bad,
\* and sanitizing it again changes nothing.
SanitizeIdempotent ==
    fpc = "done" =>
        /\ \A i \in 1..Len(fout) : ~isBadChar(fout[i])
        /\ sanitizeFullText(fout) = fout

\* ---------------------------------------------------------------------------
\* The full-text harvester: getFulltextParserSettings, getFulltext,
\* harvestWithParser, harvestWithAperture, harvestWithTika.  URLs and settings
\* are strings of characters; harvested text is a sequence of code points.
\* ---------------------------------------------------------------------------

\* Records built for getFulltext hold at most this many 856 fields.
MaxUrlFields == 2

StrAperture == <<"a", "p", "e", "r", "t", "u", "r", "e">>
StrTika == <<"t", "i", "k", "a">>
StrNone == <<"n", "o", "n", "e">>

\* fulltext.ini, as ConfigManager.getConfigSetting gives it: [General] parser,
\* [Aperture] webcrawler, [Tika] path; Null for a setting that is not there.
getConfigSetting(config, section) ==
    CASE section = "General" -> config.parser
      [] section = "Aperture" -> config.aperture
      [] section = "Tika" -> config.tika

\* The settings with the type compared as it is written in the file.
getFulltextParserSettingsCaseSensitive(config) ==
    LET parserType == getConfigSetting(config, "General")
        aperturePath == getConfigSetting(config, "Aperture")
        tikaPath == getConfigSetting(config, "Tika")
    IN  IF (parserType = Null /\ aperturePath # Null) \/ parserType = StrAperture
        THEN <<StrAperture, aperturePath>>
        ELSE IF (parserType = Null /\ tikaPath # Null) \/ parserType = StrTika
        THEN <<StrTika, tikaPath>>
        ELSE <<StrNone, Null>>

\* The array { parser type, parser configuration }.
getFulltextParserSettings(config) ==
    LET parser0 == getConfigSetting(config, "General")
        parserType == IF parser0 # Null THEN toLowerCase(parser0) ELSE parser0
        aperturePath == getConfigSetting(config, "Aperture")
        tikaPath == getConfigSetting(config, "Tika")
    IN  IF (parserType = Null /\ aperturePath # Null)
           \/ (parserType # Null /\ parserType = StrAperture)
        THEN <<StrAperture, aperturePath>>
        ELSE IF (parserType = Null /\ tikaPath # Null)
                \/ (parserType # Null /\ parserType = StrTika)
        THEN <<StrTika, tikaPath>>
        ELSE <<StrNone, Null>>

\* What one run of the external tool does, as the harvester can meet it:
\*   tmp        File.createTempFile succeeds (Aperture only)
\*   started    Runtime.exec returns a process (FALSE: it throws IOException)
\*   exit       the exit status of the process
\*   text       the text the tool wrote (Aperture: the plainTextContent of its
\*              XML file; Tika: its standard output)
\*   wellFormed the XML file of Aperture can be parsed
\*   readErr    reading the standard output of Tika ends in IOException
RunOk ==
    [tmp |-> TRUE, started |-> TRUE, exit |-> 0, text |-> <<65>>,
     wellFormed |-> TRUE, readErr |-> FALSE]
RunOkControlChars ==
    [tmp |-> TRUE, started |-> TRUE, exit |-> 0, text |-> <<66, 10, 0, 67>>,
     wellFormed |-> TRUE, readErr |-> FALSE]
RunNotStarted ==
    [tmp |-> TRUE, started |-> FALSE, exit |-> 1, text |-> <<>>,
     wellFormed |-> FALSE, readErr |-> FALSE]
RunExitsEmpty ==
    [tmp |-> TRUE, started |-> TRUE, exit |-> 1, text |-> <<>>,
     wellFormed |-> FALSE, readErr |-> FALSE]
RunUnparseable ==
    [tmp |-> TRUE, started |-> TRUE, exit |-> 0, text |-> <<60, 0>>,
     wellFormed |-> FALSE, readErr |-> FALSE]
RunBreaks ==
    [tmp |-> TRUE, started |-> TRUE, exit |-> 1, text |-> <<68>>,
     wellFormed |-> FALSE, readErr |-> TRUE]
RunNoTempFile ==
    [tmp |-> FALSE, started |-> FALSE, exit |-> 1, text |-> <<>>,
     wellFormed |-> FALSE, readErr |-> FALSE]
RunSamples ==
    {RunOk, RunOkControlChars, RunNotStarted, RunExitsEmpty, RunUnparseable,
     RunBreaks, RunNoTempFile}

\* The result of one harvest: the text, the messages logged, the processes
\* started, and whether dieWithError was called.
Harvest(text, log, execs, fatal) ==
    [text |-> text, log |-> log, execs |-> execs, fatal |-> fatal]

\* BufferedReader.readLine until the end: the lines, without their terminators.
RECURSIVE readLines(_, _)
readLines(text, line) ==
    IF text = <<>> THEN (IF line = <<>> THEN <<>> ELSE <<line>>)
    ELSE IF Head(text) \in {10, 13} THEN <<line>> \o readLines(Tail(text), <<>>)
    ELSE readLines(Tail(text), Append(line, Head(text)))

\* writer.write(sanitizeFullText(br.readLine())) for every line.
RECURSIVE writeSanitized(_)
writeSanitized(lines) ==
    IF lines = <<>> THEN <<>>
    ELSE sanitizeFullText(Head(lines)) \o writeSanitized(Tail(lines))

\* stringBuilder.append(s) for every line.
RECURSIVE appendLines(_)
appendLines(lines) ==
    IF lines = <<>> THEN <<>> ELSE Head(lines) \o appendLines(Tail(lines))

\* sanitizeApertureOutput and the text of the first plainTextContent node.
sanitizeApertureOutput(text) == writeSanitized(readLines(text, <<>>))

\* logger.error(message): the entry, with the URL the harvest was for.
LogEntry(msg, url) == <<[msg |-> msg, url |-> url]>>

harvestWithAperture(url, aperturePath, run) ==
    IF ~run.tmp
    THEN Harvest(<<>>, LogEntry("Unable to create temporary file for full text harvest.", url),
                 0, TRUE)
    ELSE LET log1 == IF run.started THEN <<>>
                     ELSE LogEntry("Problem executing Aperture", url)
             parsed == run.started /\ run.wellFormed
             log2 == IF parsed THEN <<>> ELSE LogEntry("Problem parsing Aperture XML", url)
             plainText == IF parsed THEN sanitizeApertureOutput(run.text) ELSE <<>>
         IN  Harvest(plainText, log1 \o log2, IF run.started THEN 1 ELSE 0, FALSE)

harvestWithTika(url, scraperPath, run) ==
    LET stringBuilder == IF run.started THEN appendLines(readLines(run.text, <<>>)) ELSE <<>>
        log == IF ~run.started \/ run.readErr THEN LogEntry("Problem with Tika", url)
               ELSE <<>>
    IN  Harvest(sanitizeFullText(stringBuilder), log, IF run.started THEN 1 ELSE 0, FALSE)

\* String concatenation with the null that harvestWithParser returns.
StrNullText == <<110, 117, 108, 108>>

harvestWithParser(url, settings, run) ==
    IF settings[1] = StrAperture THEN harvestWithAperture(url, settings[2], run)
    ELSE IF settings[1] = StrTika THEN harvestWithTika(url, settings[2], run)
    ELSE Harvest(StrNullText, <<>>, 0, FALSE)

\* current.replaceAll(" ", "%20")
RECURSIVE replaceSpaces(_)
replaceSpaces(str) ==
    IF str = <<>> THEN <<>>
    ELSE (IF Head(str) = " " THEN <<"%", "2", "0">> ELSE <<Head(str)>>)
             \o replaceSpaces(Tail(str))

endsWith(str, suffix) ==
    Len(suffix) <= Len(str) /\ SubSeq(str, Len(str) - Len(suffix) + 1, Len(str)) = suffix

\* The result of getFulltext: how it ended, the string returned (or null), the log,
\* the processes started, and the URLs harvested with the run each of them met.
Fulltext(exc, isNull, text, log, execs, harvested) ==
    [op |-> <<"getFulltext">>, exc |-> exc, isNull |-> isNull, text |-> text,
     log |-> log, execs |-> execs, harvested |-> harvested]

\* while (fieldsIter.hasNext()): runs holds the runs the harvests to come meet.
RECURSIVE fieldsLoop(_, _, _, _, _)
fieldsLoop(fields, extension, parserSettings, runs, acc) ==
    IF fields = <<>> THEN acc
    ELSE LET current == replaceSpaces(Head(fields))
         IN  IF extension = Null \/ endsWith(current, extension)
             THEN LET h == harvestWithParser(current, parserSettings, Head(runs))
                      harvested == Append(acc.harvested, [url |-> current, run |-> Head(runs)])
                  IN  IF h.fatal
                      THEN Fulltext("SolrMarcIndexerException", TRUE, <<>>,
                                    acc.log \o h.log, acc.execs + h.execs, harvested)
                      ELSE fieldsLoop(Tail(fields), extension, parserSettings, Tail(runs),
                                      Fulltext("none", FALSE, acc.text \o h.text,
                                               acc.log \o h.log, acc.execs + h.execs,
                                               harvested))
             ELSE fieldsLoop(Tail(fields), extension, parserSettings, runs, acc)

\* getFulltext without the test for "none".
getFulltextNoneHarvested(config, record, fieldSpec, extension, runs) ==
    fieldsLoop(getSubfieldDataAsSet(record, fieldSpec), extension,
               getFulltextParserSettings(config), runs,
               Fulltext("none", FALSE, <<>>, <<>>, 0, <<>>))

getFulltext(config, record, fieldSpec, extension, runs) ==
    LET parserSettings == getFulltextParserSettings(config)
    IN  IF parserSettings[1] = StrNone
        THEN Fulltext("none", TRUE, <<>>, <<>>, 0, <<>>)
        ELSE fieldsLoop(getSubfieldDataAsSet(record, fieldSpec), extension,
                        parserSettings, runs,
                        Fulltext("none", FALSE, <<>>, <<>>, 0, <<>>))

StrUrlA == <<"h", "t", "t", "p", ":", "/", "/", "a", "/", "a", ".", "p", "d", "f">>
StrUrlSpace == <<"h", "t", "t", "p", ":", "/", "/", "a", "/", "b", " ", "c", ".", "p", "d", "f">>
StrUrlTxt == <<"h", "t", "t", "p", ":", "/", "/", "a", "/", "d", ".", "t", "x", "t">>
StrPath == <<"/", "o", "p", "t", "/", "t", "o", "o", "l">>
StrTikaCaps == <<"T", "I", "K", "A">>
StrOther == <<"o", "t", "h", "e", "r">>
StrPdf == <<".", "p", "d", "f">>
Str856u == <<"8", "5", "6", "u">>
Str856z == <<"8", "5", "6", "z">>

UrlFieldSamples ==
    { [tag |-> <<"8", "5", "6">>, ind2 |-> " ", subfields |-> sl] :
        sl \in { <<Sub("u", StrUrlA)>>,
                 <<Sub("u", StrUrlSpace), Sub("z", StrUrlTxt)>>,
                 <<Sub("u", StrUrlTxt)>> } }

ConfigSamples ==
    [parser : {Null, StrAperture, StrTikaCaps, StrOther},
     aperture : {Null, StrPath},
     tika : {Null, StrPath}]

ExtensionSamples == {Null, StrPdf}
UrlSpecSamples == {Str856u, Str856z}

\* The URLs getFulltext will harvest, in order.
RECURSIVE matching(_, _)
matching(fields, extension) ==
    IF fields = <<>> THEN <<>>
    ELSE (IF extension = Null \/ endsWith(replaceSpaces(Head(fields)), extension)
          THEN <<replaceSpaces(Head(fields))>> ELSE <<>>)
             \o matching(Tail(fields), extension)

AddUrlField(f) ==
    /\ fpc = "build"
    /\ Len(frec.fields) < MaxUrlFields
    /\ frec' = [frec EXCEPT !.fields = Append(@, f)]
    /\ UNCHANGED <<fpc, fout>>
    /\ UNCHANGED trackerVars

CallGetFulltextParserSettings ==
    /\ fpc = "build"
    /\ fout' = [op |-> <<"getFulltextParserSettings">>,
                settings |-> getFulltextParserSettings(frec.config)]
    /\ fpc' = "done"
    /\ UNCHANGED frec
    /\ UNCHANGED trackerVars

CallGetFulltext(fieldSpec, extension) ==
    /\ fpc = "build"
    /\ \E runs \in [1..Len(matching(getSubfieldDataAsSet(frec, fieldSpec), extension))
                       -> RunSamples] :
           fout' = [getFulltext(frec.config, frec, fieldSpec, extension, runs)
                       EXCEPT !.op = <<"getFulltext", fieldSpec, extension>>]
    /\ fpc' = "done"
    /\ UNCHANGED frec
    /\ UNCHANGED trackerVars

InitFulltext ==
    /\ TrackerInit
    /\ \E config \in ConfigSamples :
           frec = [controls |-> <<>>, fields |-> <<>>, config |-> config]
    /\ fpc = "build"
    /\ fout = <<>>

NextFulltext ==
    \/ \E f \in UrlFieldSamples : AddUrlField(f)
    \/ CallGetFulltextParserSettings
    \/ \E fieldSpec \in UrlSpecSamples, extension \in ExtensionSamples :
           CallGetFulltext(fieldSpec, extension)

SpecFulltext == InitFulltext /\ [][NextFulltext]_vars

IsFulltextCall == fpc = "done" /\ fout.op[1] = "getFulltext"

\* C22: with no full-text backend configured, getFulltext returns null whatever
\* the record, the field specification and the extension, and starts no process.
C22_NoBackendNoHarvest ==
    (IsFulltextCall /\ getFulltextParserSettings(frec.config)[1] = StrNone) =>
        /\ fout.exc = "none" /\ fout.isNull
        /\ fout.execs = 0 /\ fout.harvested = <<>> /\ fout.log = <<>>

\* getFulltext has been called without a backend on a record with two URLs that
\* the field specification and the extension select.
C22_Witness ==
    /\ IsFulltextCall
    /\ frec.config.parser = StrOther /\ frec.config.aperture # Null
    /\ fout.op[2] = Str856u
    /\ Len(matching(getSubfieldDataAsSet(frec, Str856u), fout.op[3])) = 2
    /\ fout.isNull /\ fout.execs = 0

IsSettingsCall == fpc = "done" /\ fout.op[1] = "getFulltextParserSettings"

\* The backend the configuration names, in any mix of capitals and small letters.
TypeIs(config, name) ==
    config.parser # Null /\ Len(config.parser) = Len(name)
    /\ \A i \in 1..Len(name) :
           \E k \in 1..Len(LowerCase) :
               LowerCase[k] = name[i] /\ config.parser[i] \in {LowerCase[k], UpperCase[k]}

\* The backend chosen: the type named, or with no type the first backend that has
\* a path, aperture before tika.
BackendOf(config) ==
    IF TypeIs(config, StrAperture) THEN StrAperture
    ELSE IF TypeIs(config, StrTika) THEN StrTika
    ELSE IF config.parser # Null THEN StrNone
    ELSE IF config.aperture # Null THEN StrAperture
    ELSE IF config.tika # Null THEN StrTika
    ELSE StrNone

\* C26 (as stated): the settings name exactly one of aperture, tika and none; a
\* configured parser type selects its backend whatever the path of the other; with
\* no parser type it is aperture if aperture has a path, else tika if tika has
\* one, else none; and a backend other than none always comes with a path.
C26_BackendWithPath ==
    IsSettingsCall =>
        /\ fout.settings[1] \in {StrAperture, StrTika, StrNone}
        /\ fout.settings[1] = BackendOf(frec.config)
        /\ fout.settings[1] # StrNone => fout.settings[2] # Null

\* C26 (amended): the backend is chosen as stated, a parser type that names neither
\* backend gives none; the second element is the configured path of the chosen
\* backend, which is there when no parser type is configured and may be null when
\* the parser type is.
C26_BackendResolution ==
    IsSettingsCall =>
        /\ fout.settings[1] \in {StrAperture, StrTika, StrNone}
        /\ fout.settings[1] = BackendOf(frec.config)
        /\ fout.settings[2] =
               (IF fout.settings[1] = StrAperture THEN frec.config.aperture
                ELSE IF fout.settings[1] = StrTika THEN frec.config.tika
                ELSE Null)
        /\ (frec.config.parser = Null /\ fout.settings[1] # StrNone)
               => fout.settings[2] # Null

\* The parser type TIKA has selected tika although aperture has a path and tika
\* has none.
C26_Witness ==
    /\ IsSettingsCall
    /\ frec.config.parser = StrTikaCaps
    /\ frec.config.aperture # Null /\ frec.config.tika = Null
    /\ fout.settings = <<StrTika, Null>>

\* The tool failed or wrote output that cannot be parsed: it could not be started,
\* it ended with an exit status other than 0, its output broke off, or (Aperture)
\* its XML file is not well formed.
ToolFailed(backend, run) ==
    \/ ~run.started
    \/ run.exit # 0
    \/ (backend = StrAperture /\ ~run.wellFormed)
    \/ (backend = StrTika /\ run.readErr)

\* What a URL adds to the result: nothing when the tool failed, the text harvested
\* from it otherwise.
TextOfUrl(settings, h) ==
    IF ToolFailed(settings[1], h.run) THEN <<>>
    ELSE harvestWithParser(h.url, settings, h.run).text

RECURSIVE TextOfUrls(_, _)
TextOfUrls(settings, harvested) ==
    IF harvested = <<>> THEN <<>>
    ELSE TextOfUrl(settings, Head(harvested)) \o TextOfUrls(settings, Tail(harvested))

\* A getFulltext call with a backend, in which every temporary file could be made.
IsHarvest ==
    /\ IsFulltextCall
    /\ getFulltextParserSettings(frec.config)[1] # StrNone
    /\ \A i \in 1..Len(fout.harvested) :
           getFulltextParserSettings(frec.config)[1] = StrAperture => fout.harvested[i].run.tmp

\* C23: a URL for which the tool fails or writes output that cannot be parsed adds
\* no text, its failure is logged and is not fatal, and getFulltext returns the
\* texts of the other matching URLs put together.
C23_ToolFailureIsLocal ==
    IsHarvest =>
        /\ fout.exc = "none" /\ ~fout.isNull
        /\ fout.text = TextOfUrls(getFulltextParserSettings(frec.config), fout.harvested)
        /\ \A i \in 1..Len(fout.harvested) :
               ToolFailed(getFulltextParserSettings(frec.config)[1], fout.harvested[i].run)
                   => \E k \in 1..Len(fout.log) : fout.log[k].url = fout.harvested[i].url

\* The same with Aperture as the backend.
HarvestWithApertureIsLocal ==
    (IsHarvest /\ getFulltextParserSettings(frec.config)[1] = StrAperture)
        => C23_ToolFailureIsLocal

\* Aperture could not be started for the first of two URLs, and the text of the
\* second has been returned.
HarvestWithApertureSeen ==
    /\ IsHarvest /\ getFulltextParserSettings(frec.config)[1] = StrAperture
    /\ Len(fout.harvested) = 2
    /\ fout.harvested[1].run = RunNotStarted /\ fout.harvested[2].run = RunOkControlChars
    /\ fout.text = <<66, 32, 67>> /\ fout.log # <<>> /\ fout.execs = 1

\* With Tika a failure that Runtime.exec reports is local as well.
HarvestWithTikaNotStarted ==
    (IsHarvest /\ getFulltextParserSettings(frec.config)[1] = StrTika
        /\ \A i \in 1..Len(fout.harvested) :
               fout.harvested[i].run.started => fout.harvested[i].run.exit = 0)
        => C23_ToolFailureIsLocal

\* ---------------------------------------------------------------------------
\* normalizeTrailingPunctuation.
\* ---------------------------------------------------------------------------

\* Records built for normalizeTrailingPunctuation hold at most this many fields.
MaxNameFields == 2

\* The character U+0008, which the string literal "\b" of the pattern denotes.
Backspace == "\\b"

\* [.\s]
IsDotOrSpace(ch) == ch = "." \/ IsSpace(ch)

\* (?<!\b[A-Z]) at offset i: the two characters before the offset are not U+0008
\* and a capital letter.  The \b of the literal is the Java escape for backspace;
\* the pattern does not hold a word boundary.
lookbehind(str, i) ==
    ~(i >= 2 /\ str[i - 1] = Backspace /\ \E k \in 1..Len(UpperCase) : UpperCase[k] = str[i])

\* The pattern matches from offset i to the end: the lookbehind holds at i and
\* [.\s]* takes everything up to $.
matchesFrom(str, i) ==
    lookbehind(str, i) /\ \A k \in (i + 1)..Len(str) : IsDotOrSpace(str[k])

\* pattern.matcher(current).replaceAll(""): the first match goes from the leftmost
\* offset that matches to the end, and what may match after it is empty.
RECURSIVE replaceAllFrom(_, _)
replaceAllFrom(str, i) ==
    IF i > Len(str) THEN str
    ELSE IF matchesFrom(str, i) THEN SubSeq(str, 1, i)
    ELSE replaceAllFrom(str, i + 1)

\* for (String current : input) result.add(...)
RECURSIVE punctuationLoop(_, _)
punctuationLoop(input, result) ==
    IF input = <<>> THEN result
    ELSE punctuationLoop(Tail(input), SetAdd(result, replaceAllFrom(Head(input), 0)))

normalizeTrailingPunctuation(record, fieldSpec) ==
    LET result == punctuationLoop(getSubfieldDataAsSet(record, fieldSpec), <<>>)
    IN  IF result = <<>> THEN Returns(Null) ELSE Returns(result)

StrSmithA == <<"L", "i", ",", " ", "A", ".">>
StrTitleDot == <<"T", "i", ".">>
StrTitle == <<"T", "i">>
StrTitleDots == <<"T", "i", ".", " ", ".">>
StrUsa == <<"U", "S", "A", ".">>
StrInitial == <<"A", ".">>
StrDots == <<".", ".">>
StrBackspaceA == <<Backspace, "A", ".", ".">>
StrLowerInitial == <<"a", " ", "b", ".">>
Str100a == <<"1", "0", "0", "a">>

NameFieldSamples ==
    { [tag |-> <<"1", "0", "0">>, ind2 |-> " ", subfields |-> <<Sub("a", v)>>] :
        v \in {StrSmithA, StrTitleDot, StrTitle, StrTitleDots, StrUsa, StrInitial,
               StrDots, StrBackspaceA, StrLowerInitial} }

AddNameField(f) ==
    /\ fpc = "build"
    /\ Len(frec.fields) < MaxNameFields
    /\ frec' = [frec EXCEPT !.fields = Append(@, f)]
    /\ UNCHANGED <<fpc, fout>>
    /\ UNCHANGED trackerVars

CallNormalizeTrailingPunctuation ==
    /\ fpc = "build"
    /\ fout' = normalizeTrailingPunctuation(frec, Str100a)
    /\ fpc' = "done"
    /\ UNCHANGED frec
    /\ UNCHANGED trackerVars

InitPunctuation == TrackerInit /\ ExtractorInit

NextPunctuation ==
    \/ \E f \in NameFieldSamples : AddNameField(f)
    \/ CallNormalizeTrailingPunctuation

SpecPunctuation == InitPunctuation /\ [][NextPunctuation]_vars

\* The value without its trailing run of periods and whitespace.
BeforeTrailingRun(v) ==
    SubSeq(v, 1, CHOOSE n \in 0..Len(v) :
                     /\ \A k \in (n + 1)..Len(v) : IsDotOrSpace(v[k])
                     /\ (n > 0 => ~IsDotOrSpace(v[n])))

IsWordChar(ch) ==
    \/ \E k \in 1..Len(UpperCase) : ch \in {UpperCase[k], LowerCase[k]}
    \/ IsDigit(ch) \/ ch = "_"

\* The value ends, before its trailing run, in one capital letter that stands at a
\* word boundary.
EndsInInitial(v) ==
    LET p == BeforeTrailingRun(v)
    IN  /\ p # <<>>
        /\ \E k \in 1..Len(UpperCase) : UpperCase[k] = p[Len(p)]
        /\ (Len(p) = 1 \/ ~IsWordChar(p[Len(p) - 1]))

Normalized(v) == IF EndsInInitial(v) THEN v ELSE BeforeTrailingRun(v)

RECURSIVE NormalizedSet(_, _)
NormalizedSet(values, result) ==
    IF values = <<>> THEN result
    ELSE NormalizedSet(Tail(values), SetAdd(result, Normalized(Head(values))))

\* C25: normalizeTrailingPunctuation takes the trailing run of whitespace and
\* periods off each extracted value, and takes nothing off a value whose run comes
\* after one capital letter at a word boundary ("Li, A." stays as it is); it
\* returns null when no value is extracted.
C25_InitialsKept ==
    fpc = "done" =>
        /\ fout.exc = "none"
        /\ fout.value = IF getSubfieldDataAsSet(frec, Str100a) = <<>> THEN Null
                        ELSE NormalizedSet(getSubfieldDataAsSet(frec, Str100a), <<>>)

RECURSIVE StrippedSet(_, _)
StrippedSet(values, result) ==
    IF values = <<>> THEN result
    ELSE StrippedSet(Tail(values), SetAdd(result, BeforeTrailingRun(Head(values))))

\* What the pattern does to values without the character U+0008: the trailing run
\* is taken off every one of them, initial or not.
PunctuationAlwaysStripped ==
    (fpc = "done" /\ \A i \in 1..Len(frec.fields) :
                         Backspace \notin Range(frec.fields[i].subfields[1].data))
        => fout.value = IF getSubfieldDataAsSet(frec, Str100a) = <<>> THEN Null
                        ELSE StrippedSet(getSubfieldDataAsSet(frec, Str100a), <<>>)

\* "Li, A." has come out as "Li, A".
PunctuationAlwaysStrippedSeen ==
    /\ fpc = "done" /\ Len(frec.fields) = 1
    /\ frec.fields[1].subfields[1].data = StrSmithA
    /\ fout.value = <<SubSeq(StrSmithA, 1, 5)>>

\* ---------------------------------------------------------------------------
\* The tracker field after updateTracker.
\* ---------------------------------------------------------------------------

\* C27: whenever updateTracker returns normally, whatever the order of the
\* shutdown(), updateTracker(), getFirstIndexed() and getLastIndexed() calls, the
\* tracker field is not null, so that getFirstIndexed and getLastIndexed never
\* dereference a null tracker.
C27_TrackerSetOnReturn ==
    /\ utpc = "ret" => tracker # "null"
    /\ outcome # "npe"

\* As long as no shutdown has begun, a normal return leaves the tracker set.
TrackerSetBeforeShutdown ==
    (utpc = "ret" /\ ~sdBegun) => tracker # "null"

\* updateTracker has returned normally with the tracker set, before any shutdown.
TrackerSetBeforeShutdownSeen ==
    utpc = "ret" /\ ~sdBegun /\ tracker = "obj" /\ utOp = "getFirstIndexed"

\* ---------------------------------------------------------------------------
\* facets.js, lightbox_facets: the "more" button of the lightbox facet list
\* (.js-facet-next-page).  The scripts of facets.js run on a page, not on a
\* record: here frec holds the page (the DOM and the script's variables) and fout
\* the requests, with what has been observed of them.
\* ---------------------------------------------------------------------------

\* The facet list has at most this many pages.
MaxPage == 4
\* The user clicks the button at most this many times.
MaxClicks == 5
\* setup() runs at most this many times on one button.
MaxSetups == 2

\* The page after the first setup(): the button as the server rendered it, with
\* one click handler.
FacetMorePage ==
    [button |-> [present |-> TRUE, disabled |-> FALSE, page |-> 1, label |-> "more_ellipsis"],
     handlers |-> 1, items |-> 0, clicks |-> 0]

\* No request in flight; none started, none failed.
NoRequests == [inflight |-> <<>>, started |-> 0, failed |-> 0]

\* What the server may answer: the number of .js-facet-item elements and whether
\* the answer holds a .js-facet-next-page element.
ResponseSamples == [items : {0, 1, 2}, next : BOOLEAN]

\* One run of facetLightboxMore on the button: the button and the requests after
\* it.  A disabled button returns false at once.
facetLightboxMore(st) ==
    IF st.button.disabled THEN st
    ELSE [button |-> [st.button EXCEPT !.disabled = TRUE, !.label = "loading_ellipsis"],
          inflight |-> Append(st.inflight, [facetpage |-> st.button.page]),
          started |-> st.started + 1]

\* jQuery calls every click handler bound to the button, in order.
RECURSIVE runHandlers(_, _)
runHandlers(n, st) == IF n = 0 THEN st ELSE runHandlers(n - 1, facetLightboxMore(st))

\* lightbox_facets.setup() once more (updateContent calls it after every reload):
\* .on("click", ...) adds a handler and takes none away.
SetupAgain ==
    /\ fpc = "page"
    /\ frec.handlers < MaxSetups
    /\ frec' = [frec EXCEPT !.handlers = @ + 1]
    /\ UNCHANGED <<fpc, fout>>
    /\ UNCHANGED trackerVars

\* The user clicks the button.
ClickMore ==
    /\ fpc = "page"
    /\ frec.button.present
    /\ frec.clicks < MaxClicks
    /\ frec.button.page < MaxPage
    /\ LET st == runHandlers(frec.handlers,
                             [button |-> frec.button, inflight |-> fout.inflight,
                              started |-> fout.started])
       IN  /\ frec' = [frec EXCEPT !.button = st.button, !.clicks = @ + 1]
           /\ fout' = [fout EXCEPT !.inflight = st.inflight, !.started = st.started]
    /\ fpc' = fpc
    /\ UNCHANGED trackerVars

\* getContent(...).then(data => ...): the request at the head of the queue is
\* answered.  page is the value read when the click was handled.
MoreLoaded(data) ==
    /\ fpc = "page"
    /\ fout.inflight # <<>>
    /\ LET page == Head(fout.inflight).facetpage
       IN  frec' = [frec EXCEPT
                      !.items = @ + data.items,
                      !.button = IF data.items > 0 /\ data.next
                                 THEN [@ EXCEPT !.page = page + 1, !.label = "more_ellipsis",
                                                !.disabled = FALSE]
                                 ELSE [@ EXCEPT !.present = FALSE]]
    /\ fout' = [fout EXCEPT !.inflight = Tail(@)]
    /\ fpc' = fpc
    /\ UNCHANGED trackerVars

\* The request fails: the promise is rejected, and then() was given no handler for
\* that.
MoreFailed ==
    /\ fpc = "page"
    /\ fout.inflight # <<>>
    /\ fout' = [fout EXCEPT !.inflight = Tail(@), !.failed = @ + 1]
    /\ UNCHANGED <<frec, fpc>>
    /\ UNCHANGED trackerVars

\* The browser settles every request, one way or the other.
MoreSettled == (\E data \in ResponseSamples : MoreLoaded(data)) \/ MoreFailed

InitFacetMore ==
    /\ TrackerInit
    /\ frec = FacetMorePage
    /\ fpc = "page"
    /\ fout = NoRequests

NextFacetMore ==
    \/ SetupAgain
    \/ ClickMore
    \/ \E data \in ResponseSamples : MoreLoaded(data)
    \/ MoreFailed

SpecFacetMore ==
    InitFacetMore /\ [][NextFacetMore]_vars /\ WF_vars(MoreSettled)

\* A request for page p is in flight.
MoreRequested(p) ==
    \E i \in 1..Len(fout.inflight) : fout.inflight[i].facetpage = p

\* The button is gone, or is enabled again and stands at page p + 1.
MoreDone(p) ==
    \/ ~frec.button.present
    \/ (~frec.button.disabled /\ frec.button.page = p + 1)

\* C28: at most one next-page request is in flight at any time, and every request
\* started by a click is followed, whether it succeeds or fails, by the button
\* being enabled again with its page number one higher, or removed.
C28_MoreSettles ==
    /\ [](Len(fout.inflight) <= 1)
    /\ \A p \in 1..MaxPage : MoreRequested(p) ~> MoreDone(p)

\* At most one request is in flight, and a click on the disabled button starts none.
MoreOneInFlight ==
    /\ Len(fout.inflight) <= 1
    /\ (frec.button.present /\ frec.button.disabled) =>
           fout.inflight = runHandlers(frec.handlers,
                                       [button |-> frec.button, inflight |-> fout.inflight,
                                        started |-> fout.started]).inflight

\* Every request is followed by the button enabled at the next page or removed,
\* or by the failure of a request.
MoreSettlesUnlessFailed ==
    \A p \in 1..MaxPage : MoreRequested(p) ~> (MoreDone(p) \/ fout.failed > 0)

\* Two handlers are bound, a request is in flight and the button is disabled.
MoreOneInFlightSeen ==
    /\ frec.handlers = 2 /\ Len(fout.inflight) = 1 /\ fout.started = 2
    /\ frec.button.disabled /\ frec.button.page = 2 /\ frec.clicks = 3

\* A request has failed and the button is still disabled, with nothing in flight.
MoreStuckSeen ==
    fout.failed > 0 /\ fout.inflight = <<>> /\ frec.button.present /\ frec.button.disabled

\* ---------------------------------------------------------------------------
\* facets.js, sideFacets: side facets loaded with AJAX (getSideFacets).
\* ---------------------------------------------------------------------------

\* getSideFacets requests sent on one page, at most.
MaxSideRequests == 3

\* The [data-facet] elements of the container: two collapsible facet groups and a
\* checkbox filter.
CollapseFacets == {"format", "author"}
CheckboxFacets == {"online"}
SideFacetNames == CollapseFacets \cup CheckboxFacets

\* $container.find('div.collapse.in[data-facet], div.collapse.show[data-facet],
\* .checkbox-filters [data-facet]'): the collapses that are shown and the checkbox
\* filters the page has.
facetsFound(page) == {f \in CollapseFacets : page.shown[f]} \cup page.checkboxes

\* activateSingleAjaxFacetContainer: the facets found that are not marked loaded
\* are requested in one request; nothing is sent when there are none.  last keeps,
\* for the request sent last, what was loaded and what was in flight when it went.
activateSingleAjaxFacetContainer(page, net) ==
    LET facetList == {f \in facetsFound(page) : ~page.loaded[f]}
    IN  IF facetList = {} THEN net
        ELSE [inflight |-> Append(net.inflight, facetList),
              sent |-> net.sent + 1,
              last |-> [enabledFacets |-> facetList,
                        loaded |-> {f \in SideFacetNames : page.loaded[f]},
                        pending |-> UNION Range(net.inflight)]]

\* $('.side-facets-container-ajax').each(activateSingleAjaxFacetContainer), for the
\* one container of the page.
loadAjaxSideFacets(page, net) == activateSingleAjaxFacetContainer(page, net)

NothingSent ==
    [inflight |-> <<>>, sent |-> 0,
     last |-> [enabledFacets |-> {}, loaded |-> {}, pending |-> {}]]

\* The page as rendered: some collapses open, with or without a checkbox filter,
\* nothing loaded.
SideFacetPages ==
    [shown : [CollapseFacets -> BOOLEAN], checkboxes : SUBSET CheckboxFacets,
     loaded : {[f \in SideFacetNames |-> FALSE]}]

\* shown.bs.collapse on a facet group: the listener of init runs loadAjaxSideFacets.
CollapseShown(f) ==
    /\ fpc = "page"
    /\ ~frec.shown[f]
    /\ fout.sent < MaxSideRequests
    /\ frec' = [frec EXCEPT !.shown[f] = TRUE]
    /\ fout' = loadAjaxSideFacets(frec', fout)
    /\ fpc' = fpc
    /\ UNCHANGED trackerVars

\* The user closes a facet group.
CollapseHidden(f) ==
    /\ fpc = "page"
    /\ frec.shown[f]
    /\ frec' = [frec EXCEPT !.shown[f] = FALSE]
    /\ UNCHANGED <<fpc, fout>>
    /\ UNCHANGED trackerVars

\* onGetSideFacetsDone for the i-th request in flight: every facet of the response
\* is marked loaded.
onGetSideFacetsDone(i) ==
    /\ fpc = "page"
    /\ i \in 1..Len(fout.inflight)
    /\ frec' = [frec EXCEPT !.loaded = [f \in SideFacetNames |->
                                          @[f] \/ f \in fout.inflight[i]]]
    /\ fout' = [fout EXCEPT !.inflight = SubSeq(@, 1, i - 1) \o SubSeq(@, i + 1, Len(@))]
    /\ fpc' = fpc
    /\ UNCHANGED trackerVars

\* onGetSideFacetsFail: the indicator goes, nothing is marked loaded.
onGetSideFacetsFail(i) ==
    /\ fpc = "page"
    /\ i \in 1..Len(fout.inflight)
    /\ fout' = [fout EXCEPT !.inflight = SubSeq(@, 1, i - 1) \o SubSeq(@, i + 1, Len(@))]
    /\ UNCHANGED <<frec, fpc>>
    /\ UNCHANGED trackerVars

\* After SideFacets.init(): the listeners are bound and loadAjaxSideFacets() has
\* run once.
InitSideFacets ==
    /\ TrackerInit
    /\ frec \in SideFacetPages
    /\ fpc = "page"
    /\ fout = loadAjaxSideFacets(frec, NothingSent)

NextSideFacets ==
    \/ \E f \in CollapseFacets : CollapseShown(f)
    \/ \E f \in CollapseFacets : CollapseHidden(f)
    \/ \E i \in 1..MaxSideRequests : onGetSideFacetsDone(i)
    \/ \E i \in 1..MaxSideRequests : onGetSideFacetsFail(i)

SpecSideFacets == InitSideFacets /\ [][NextSideFacets]_vars

\* C29: no getSideFacets request includes a facet that is already marked loaded
\* or that is part of a request still in flight (a facet is requested again only
\* after its request has failed).
C29_RequestedOnce ==
    fout.last.enabledFacets \cap (fout.last.loaded \cup fout.last.pending) = {}

\* No request includes a facet that is marked loaded.
SideFacetsLoadedNotRequested ==
    fout.last.enabledFacets \cap fout.last.loaded = {}

\* A request has gone out for one facet while another one was loaded already.
SideFacetsLoadedNotRequestedSeen ==
    /\ fout.last.loaded # {} /\ fout.last.enabledFacets # {}
    /\ fout.sent = 2

\* ---------------------------------------------------------------------------
\* facets.js, multiFacetsSelection: marking facet links while the selection of
\* several facets is activated.
\* ---------------------------------------------------------------------------

\* The facet links with a click listener: the link of a facet value and its
\* exclude link, which share one .facet element, and a link that is a .facet
\* element itself and removes a filter that is applied.
FacetLinks == <<"include", "exclude", "applied">>
LinkSet == Range(FacetLinks)

\* elem.closest('.facet'), by the links inside it.
closestFacet(link) ==
    IF link \in {"include", "exclude"} THEN {"include", "exclude"} ELSE {}

\* The parameters of the page URL, and those of each link's href.
InitialParams == {"lookfor", "filter:applied"}
hrefParams(link) ==
    CASE link = "include" -> InitialParams \cup {"filter:value"}
      [] link = "exclude" -> InitialParams \cup {"filter:-value"}
      [] link = "applied" -> {"lookfor"}

\* The page after init(): selection not activated, no link marked.  since keeps
\* the links clicked since the selection was last deactivated.
MultiFacetsPage ==
    [isMultiFacetsSelectionActivated |-> FALSE,
     modified |-> [l \in LinkSet |-> "null"],
     styled |-> [l \in LinkSet |-> FALSE],
     since |-> {}]

\* elem.setAttribute('data-multi-filters-modified', v); toggleSelectedFacetStyle(elem)
markLink(page, link, v) ==
    [page EXCEPT !.modified[link] = v, !.styled[link] = ~@]

\* handleMultiSelectionClick on a link: a marked link of the same .facet is
\* clicked first (and so unmarked), then the link takes the opposite mark.
handleMultiSelectionClick(page, link) ==
    LET isOriginalState == page.modified[link] \in {"null", "false"}
        marked == SelectSeq(FacetLinks,
                            LAMBDA l : l \in closestFacet(link) /\ page.modified[l] = "true")
        page1 == IF isOriginalState /\ marked # <<>>
                 THEN markLink(page, marked[1], "false")
                 ELSE page
    IN  markLink(page1, link, IF isOriginalState THEN "true" ELSE "false")

\* handleClickedFacet: the link is marked only while the selection is activated.
handleClickedFacet(page, link) ==
    IF page.isMultiFacetsSelectionActivated = TRUE
    THEN [handleMultiSelectionClick(page, link) EXCEPT !.since = @ \cup {link}]
    ELSE page

\* for (const elem of elems): every marked link is unmarked.
RECURSIVE resetLinks(_, _)
resetLinks(page, links) ==
    IF links = <<>> THEN page
    ELSE resetLinks(IF page.modified[Head(links)] = "true"
                    THEN markLink(page, Head(links), "false") ELSE page,
                    Tail(links))

\* toggleMultiFacetsSelection without the loop over the marked links.
toggleMultiFacetsSelectionNoReset(page, enable) ==
    LET activated == IF enable # "undefined" THEN enable = "true"
                     ELSE page.isMultiFacetsSelectionActivated
    IN  [page EXCEPT !.isMultiFacetsSelectionActivated = activated]

\* toggleMultiFacetsSelection(enable), enable being true, false or undefined.
toggleMultiFacetsSelection(page, enable) ==
    LET activated == IF enable # "undefined" THEN enable = "true"
                     ELSE page.isMultiFacetsSelectionActivated
        page1 == [page EXCEPT !.isMultiFacetsSelectionActivated = activated]
    IN  IF ~activated THEN [resetLinks(page1, FacetLinks) EXCEPT !.since = {}]
        ELSE page1

\* setModifiedFacets: the parameters that the marked links add and remove.
setModifiedFacets(page) ==
    LET elems == {l \in LinkSet : page.modified[l] = "true"}
    IN  [added |-> UNION {hrefParams(l) \ InitialParams : l \in elems},
         removed |-> UNION {InitialParams \ hrefParams(l) : l \in elems}]

\* The user clicks a facet link.  While the selection is not activated the browser
\* goes on to follow the link; the page is kept here for as long as that takes.
ClickFacet(link) ==
    /\ fpc = "page"
    /\ frec' = handleClickedFacet(frec, link)
    /\ UNCHANGED <<fpc, fout>>
    /\ UNCHANGED trackerVars

\* The user changes the checkbox .js-user-selection-multi-filters.
multiFacetSelectionChange(checked) ==
    /\ fpc = "page"
    /\ checked = ~frec.isMultiFacetsSelectionActivated
    /\ frec' = toggleMultiFacetsSelection(frec, IF checked THEN "true" ELSE "false")
    /\ UNCHANGED <<fpc, fout>>
    /\ UNCHANGED trackerVars

\* init() of another context (a lightbox): toggleMultiFacetsSelection().
InitContext ==
    /\ fpc = "page"
    /\ frec' = toggleMultiFacetsSelection(frec, "undefined")
    /\ UNCHANGED <<fpc, fout>>
    /\ UNCHANGED trackerVars

\* applyMultiFacetsSelection: the new URL is compiled and the page is left.
applyMultiFacetsSelection ==
    /\ fpc = "page"
    /\ fout' = setModifiedFacets(frec)
    /\ fpc' = "left"
    /\ UNCHANGED frec
    /\ UNCHANGED trackerVars

InitMultiFacets ==
    /\ TrackerInit
    /\ frec = MultiFacetsPage
    /\ fpc = "page"
    /\ fout = [added |-> {}, removed |-> {}]

NextMultiFacets ==
    \/ \E link \in LinkSet : ClickFacet(link)
    \/ \E checked \in BOOLEAN : multiFacetSelectionChange(checked)
    \/ InitContext
    \/ applyMultiFacetsSelection

SpecMultiFacets == InitMultiFacets /\ [][NextMultiFacets]_vars

\* C30: while the selection is not activated no facet link is marked
\* data-multi-filters-modified="true" (a click then marks nothing, deactivating
\* unmarks every link), and apply adds and removes parameters only for links
\* clicked since the selection was last deactivated.
C30_NoMarkWhenDeactivated ==
    /\ ~frec.isMultiFacetsSelectionActivated =>
           /\ \A l \in LinkSet : frec.modified[l] # "true"
           /\ fpc = "left" => (fout.added = {} /\ fout.removed = {})
    /\ \A l \in LinkSet : frec.modified[l] = "true" => l \in frec.since
    /\ fpc = "left" =>
           /\ fout.added \subseteq UNION {hrefParams(l) \ InitialParams : l \in frec.since}
           /\ fout.removed \subseteq UNION {InitialParams \ hrefParams(l) : l \in frec.since}

\* A link marked while activated has been unmarked by the deactivation, and apply
\* has then added and removed nothing.
C30_Witness ==
    /\ fpc = "left" /\ ~frec.isMultiFacetsSelectionActivated
    /\ frec.modified["applied"] = "false" /\ frec.modified["include"] = "false"
    /\ fout.added = {} /\ fout.removed = {}

====
